---- MODULE Spec2Model ----
(***************************************************************************)
(* Water Value Database analysis pipeline.                                  *)
(*                                                                          *)
(*   scripts/04_run_pipeline.py     the runner (main, run_step,             *)
(*                                  check_prerequisites, STEPS)             *)
(*   scripts/01_summary_tables.py   the table generator (Tables 1-6)        *)
(*   scripts/02_completeness_heatmap.py, scripts/03_analytical_charts.py    *)
(*                                  the two figure generators               *)
(*                                                                          *)
(* Spec        the runner, its child processes and the file system          *)
(* SpecTables  the table generator's main() applied to bounded inputs       *)
(* SpecCharts  Chart 1 of the chart generator applied to bounded inputs     *)
(* SpecRegions Table 3 and Chart 2 applied to the same bounded inputs      *)
(* SpecHeat    calculate_completeness applied to bounded inputs             *)
(***************************************************************************)
EXTENDS Integers, Sequences, FiniteSets, TLC

VARIABLES
    \* ---- file system ----
    db_exists,      \* DB_PATH.exists() / SQLITE_PATH.exists()
    script_exists,  \* the step numbers whose script file exists in SCRIPTS_DIR
    dirs,           \* the output directories that exist
    files,          \* the output files that exist, as <<directory, name>>
    \* ---- runner process (04_run_pipeline.py) ----
    pc,             \* "idle", "loop", "child", "done"
    args_step,      \* args.step
    steps_to_run,   \* main's steps_to_run, as step numbers
    idx,            \* position of the for loop in steps_to_run
    results,        \* main's results: step number -> success
    started,        \* the step numbers handed to subprocess.run, in order
    child,          \* the step whose child process is running, 0 when none
    child_pc,       \* how many of its file operations the child has done
    printed,        \* the messages printed so far, as <<tag, step number>>
    exit_code,      \* the runner's exit code, NoExit while it runs
    \* ---- a generator run on its own (python scripts/0k_....py) ----
    gen_exit,       \* generator k -> exit code and error of its standalone run
    \* ---- table generator data (01_summary_tables.py) ----
    df_class,       \* the classification table, one sequence per column
    df_wv,          \* the water_values table, one sequence per column
    tables,         \* main's tables: "table_k" -> sequence of rows
    t_pc,           \* main's position: number of tables generated, or "error"
    \* ---- chart generator data (03_analytical_charts.py) ----
    chart1,         \* the locals of create_year_method_stacked
    chart2,         \* display_data of create_geographic_distribution
    c_pc,           \* main's position in the chart generator
    \* ---- completeness data (02_completeness_heatmap.py) ----
    dfs,            \* load_data's dfs: table name -> column name -> column
    completeness,   \* calculate_completeness's result: name -> column -> %
    summary,        \* the numbers print_completeness_summary prints
    h_pc            \* main's position in the heatmap generator

fsvars == <<db_exists, script_exists, dirs, files>>
runvars == <<pc, args_step, steps_to_run, idx, results, started, child,
             child_pc, printed, exit_code>>
chartvars == <<chart1, chart2, c_pc>>
heatvars == <<dfs, completeness, summary, h_pc>>
datavars == <<df_class, df_wv, tables, t_pc, chartvars, heatvars>>
vars == <<fsvars, runvars, gen_exit, datavars>>

-----------------------------------------------------------------------------
(* Bounds of the model *)

\* --step values tried: -MaxStepArgBelow .. number of steps + MaxStepArgAbove
MaxStepArgAbove == 1
MaxStepArgBelow == 1

\* rows of the classification table and of the water_values table
MaxRows == 5
MaxWvRows == 4

\* Chart 1: rows of the classification table and the number of years
\* their publication years span
MaxChartRows == 4
YearSpan == 5

\* rows of a table whose completeness is calculated: every column of up to
\* MaxColRows rows, and the columns of LongColRows rows by their number of
\* null values
MaxColRows == 6
LongColRows == 201

\* Table 3 and Chart 2: the number of regions other than the sentinels
MaxRegions == 17

\* exit_code while the runner has not exited
NoExit == 0 - 1

-----------------------------------------------------------------------------
(* Paths and pipeline steps: 04_run_pipeline.py *)

FIGURES_DIR == "figures"
TABLES_DIR == "tables"
AllDirs == {FIGURES_DIR, TABLES_DIR}

\* STEPS[k].outputs
STEPS ==
    <<  [number |-> 1, script |-> "01_summary_tables.py",
         outputs |-> { <<FIGURES_DIR, "table_1_classification.csv">>,
                       <<FIGURES_DIR, "table_2_methods.csv">>,
                       <<FIGURES_DIR, "table_3_regions.csv">>,
                       <<FIGURES_DIR, "table_4_years.csv">>,
                       <<FIGURES_DIR, "table_5_wv_summary.csv">>,
                       <<FIGURES_DIR, "table_6_wv_purpose.csv">> }],
        [number |-> 2, script |-> "02_completeness_heatmap.py",
         outputs |-> { <<FIGURES_DIR, "fig_completeness_heatmap.png">>,
                       <<FIGURES_DIR, "fig_completeness_heatmap.pdf">> }],
        [number |-> 3, script |-> "03_analytical_charts.py",
         outputs |-> { <<FIGURES_DIR, "fig_year_method_stacked.png">>,
                       <<FIGURES_DIR, "fig_geographic_distribution.png">>,
                       <<FIGURES_DIR, "fig_wv_datapoints_by_year.png">>,
                       <<FIGURES_DIR, "fig_continent_purpose_heatmap.png">>,
                       <<FIGURES_DIR, "fig_category_method_heatmap.png">> }] >>

StepNumbers == {STEPS[i].number : i \in DOMAIN STEPS}

StepArgs == (0 - MaxStepArgBelow) .. (Len(STEPS) + MaxStepArgAbove)

-----------------------------------------------------------------------------
(* What each generator does to the file system, in program order *)

MkDir(d) == [op |-> "mkdir", dir |-> d, name |-> ""]
WriteFile(d, n) == [op |-> "write", dir |-> d, name |-> n]

\* 01_summary_tables.py: export_tables, then save_report
TablesOps ==
    <<  MkDir(TABLES_DIR),
        WriteFile(TABLES_DIR, "table_1_classification.csv"),
        WriteFile(TABLES_DIR, "table_2_methods.csv"),
        WriteFile(TABLES_DIR, "table_3_regions.csv"),
        WriteFile(TABLES_DIR, "table_4_years.csv"),
        WriteFile(TABLES_DIR, "table_5_wv_summary.csv"),
        WriteFile(TABLES_DIR, "table_6_wv_purpose.csv"),
        WriteFile(TABLES_DIR, "all_tables_formatted.txt"),
        WriteFile(FIGURES_DIR, "summary_tables_report.txt") >>

\* 02_completeness_heatmap.py: create_heatmap, generate_caption, save_report
HeatmapOps ==
    <<  MkDir(FIGURES_DIR),
        WriteFile(FIGURES_DIR, "fig_completeness_heatmap.png"),
        WriteFile(FIGURES_DIR, "fig_completeness_heatmap.pdf"),
        WriteFile(FIGURES_DIR, "fig_completeness_heatmap_caption.txt"),
        WriteFile(FIGURES_DIR, "completeness_heatmap_report.txt") >>

\* 03_analytical_charts.py: _save_figure(fig, name)
SaveFigure(name) ==
    <<  MkDir(FIGURES_DIR),
        WriteFile(FIGURES_DIR, name \o ".png"),
        WriteFile(FIGURES_DIR, name \o ".pdf") >>

\* 03_analytical_charts.py: the five charts, save_captions, save_report
ChartsOps ==
    SaveFigure("fig_year_method_stacked")
    \o SaveFigure("fig_geographic_distribution")
    \o SaveFigure("fig_wv_datapoints_by_year")
    \o SaveFigure("fig_continent_purpose_heatmap")
    \o SaveFigure("fig_category_method_heatmap")
    \o << MkDir(FIGURES_DIR),
          WriteFile(FIGURES_DIR, "fig_analytical_charts_captions.txt"),
          WriteFile(FIGURES_DIR, "analytical_charts_report.txt") >>

GeneratorOps(k) ==
    CASE k = 1 -> TablesOps
      [] k = 2 -> HeatmapOps
      [] k = 3 -> ChartsOps

\* Path.mkdir(parents=True, exist_ok=True) always succeeds; open(path, "w")
\* and to_csv / savefig raise when the directory does not exist.
OpApplicable(o, d) == o.op = "mkdir" \/ o.dir \in d

DirsAfter(o, d) == IF o.op = "mkdir" THEN d \cup {o.dir} ELSE d

FilesAfter(o, f) == IF o.op = "write" THEN f \cup {<<o.dir, o.name>>} ELSE f

\* mutant: load_data connects without testing that the store exists
load_data_ok_nocheck(db) == TRUE

\* load_data: the generator raises FileNotFoundError before anything else
\* when the store is missing.
load_data_ok(db) == db

\* A whole generator run from operation i on: the exit code and the file
\* system it leaves.  An uncaught exception ends the process with code 1.
RECURSIVE RunOps(_, _, _, _)
RunOps(ops, i, d, f) ==
    IF i > Len(ops)
    THEN [rc |-> 0, err |-> "", dirs |-> d, files |-> f]
    ELSE IF ~OpApplicable(ops[i], d)
    THEN [rc |-> 1, err |-> "FileNotFoundError: no such directory",
          dirs |-> d, files |-> f]
    ELSE RunOps(ops, i + 1, DirsAfter(ops[i], d), FilesAfter(ops[i], f))

\* main() of generator k.  load_data opens the store with sqlite3.connect,
\* which leaves an existing file as it is and creates an empty database
\* when there is none, and reads the tables with SELECT statements, which
\* raise on a table that does not exist.  db is the store's existence
\* after the run.
GeneratorMain(k, db, d, f) ==
    IF ~load_data_ok(db)
    THEN [rc |-> 1, err |-> "FileNotFoundError: SQLite database not found",
          dirs |-> d, files |-> f, db |-> db]
    ELSE IF ~db
    THEN [rc |-> 1, err |-> "DatabaseError: no such table",
          dirs |-> d, files |-> f, db |-> TRUE]
    ELSE LET r == RunOps(GeneratorOps(k), 1, d, f)
         IN  [rc |-> r.rc, err |-> r.err, dirs |-> r.dirs,
              files |-> r.files, db |-> db]

-----------------------------------------------------------------------------
(* The runner: 04_run_pipeline.py *)

\* mutant: the prerequisite check always passes
check_prerequisites_skip(db) == TRUE

\* check_prerequisites()
check_prerequisites(db) == db

\* mutant: every step from the requested one on is selected
SelectSteps_from(step) ==
    IF step > 0
    THEN SelectSeq([i \in DOMAIN STEPS |-> STEPS[i].number],
                   LAMBDA n : n >= step)
    ELSE [i \in DOMAIN STEPS |-> STEPS[i].number]

\* main: "Determine which steps to run"
SelectSteps(step) ==
    IF step > 0
    THEN SelectSeq([i \in DOMAIN STEPS |-> STEPS[i].number],
                   LAMBDA n : n = step)
    ELSE [i \in DOMAIN STEPS |-> STEPS[i].number]

\* results[number] = success
Record(res, k, success) ==
    [n \in DOMAIN res \cup {k} |-> IF n = k THEN success ELSE res[n]]

\* main: "Summary", the status line of every step
StatusOf(res, n) ==
    IF n \in DOMAIN res
    THEN (IF res[n] THEN "PASS" ELSE "FAIL")
    ELSE "SKIP"

n_pass(res) == Cardinality({n \in DOMAIN res : res[n]})
n_fail(res) == Cardinality({n \in DOMAIN res : ~res[n]})
n_skip(res) == Len(STEPS) - Cardinality(DOMAIN res)

\* mutant: the banner is printed whenever no step failed
SummaryLines_nofail(res) ==
    {<<StatusOf(res, n), n>> : n \in StepNumbers}
    \cup {<<"Passed:", n_pass(res)>>, <<"Failed:", n_fail(res)>>,
          <<"Skipped:", n_skip(res)>>}
    \cup (IF n_fail(res) = 0
          THEN {<<"ALL STEPS COMPLETED SUCCESSFULLY", 0>>}
          ELSE {<<"PIPELINE INCOMPLETE", 0>>})

\* main, from "Summary" to the end: what is printed
SummaryLines(res) ==
    {<<StatusOf(res, n), n>> : n \in StepNumbers}
    \cup {<<"Passed:", n_pass(res)>>, <<"Failed:", n_fail(res)>>,
          <<"Skipped:", n_skip(res)>>}
    \cup (IF n_fail(res) = 0 /\ n_skip(res) = 0
          THEN {<<"ALL STEPS COMPLETED SUCCESSFULLY", 0>>}
          ELSE IF n_fail(res) > 0
          THEN {<<"PIPELINE INCOMPLETE", 0>>}
          ELSE {})

\* mutant: the failure exit is taken only when no step was skipped
SummaryExit_noskip(res) == IF n_fail(res) > 0 /\ n_skip(res) = 0 THEN 1 ELSE 0

\* main, from "Summary" to the end: sys.exit(1) when a step failed
SummaryExit(res) == IF n_fail(res) > 0 THEN 1 ELSE 0

\* main, up to the for loop: parse_args, check_prerequisites, the choice of
\* steps_to_run and FIGURES_DIR.mkdir
MainStart(step) ==
    /\ pc = "idle"
    /\ args_step' = step
    /\ IF ~check_prerequisites(db_exists)
       THEN /\ printed' = printed \cup {<<"DATABASE NOT FOUND", 0>>}
            /\ exit_code' = 1
            /\ pc' = "done"
            /\ UNCHANGED <<steps_to_run, idx, dirs>>
       ELSE IF SelectSteps(step) = <<>>
       THEN /\ printed' = printed \cup {<<"Invalid step number", step>>}
            /\ exit_code' = 1
            /\ pc' = "done"
            /\ UNCHANGED <<steps_to_run, idx, dirs>>
       ELSE /\ steps_to_run' = SelectSteps(step)
            /\ dirs' = dirs \cup {FIGURES_DIR}
            /\ idx' = 1
            /\ pc' = "loop"
            /\ UNCHANGED <<printed, exit_code>>
    /\ UNCHANGED <<db_exists, script_exists, files, results, started, child,
                   child_pc, gen_exit, datavars>>

\* mutant: the halt condition tests for a single-step run
ShouldHalt_single(success, step) == ~success /\ step > 0

\* main: "if not success and args.step == 0: ... break"
ShouldHalt(success, step) == ~success /\ step = 0

\* mutant: a failed step is run again
AfterRunStep_retry(k, success, msgs) ==
    LET res == Record(results, k, success)
    IN  /\ child' = 0
        /\ child_pc' = 0
        /\ IF ~success
           THEN /\ results' = results
                /\ printed' = printed \cup msgs
                /\ exit_code' = exit_code
                /\ pc' = "loop"
                /\ idx' = idx
           ELSE IF idx = Len(steps_to_run)
           THEN /\ results' = res
                /\ printed' = printed \cup msgs \cup SummaryLines(res)
                /\ exit_code' = SummaryExit(res)
                /\ pc' = "done"
                /\ idx' = idx
           ELSE /\ results' = res
                /\ printed' = printed \cup msgs
                /\ exit_code' = exit_code
                /\ pc' = "loop"
                /\ idx' = idx + 1

\* main's loop body after run_step returned `success` for step k with the
\* messages `msgs`: record it, halt or go on, and print the summary and exit
\* when the loop is over.
AfterRunStep(k, success, msgs) ==
    LET res == Record(results, k, success)
        halt == ShouldHalt(success, args_step)
        out == printed \cup msgs
                 \cup (IF halt THEN {<<"Pipeline halted", k>>} ELSE {})
    IN  /\ results' = res
        /\ child' = 0
        /\ child_pc' = 0
        /\ IF halt \/ idx = Len(steps_to_run)
           THEN /\ printed' = out \cup SummaryLines(res)
                /\ exit_code' = SummaryExit(res)
                /\ pc' = "done"
                /\ idx' = idx
           ELSE /\ printed' = out
                /\ exit_code' = exit_code
                /\ pc' = "loop"
                /\ idx' = idx + 1

\* run_step: the script file is missing, return False
RunStepScriptMissing ==
    /\ pc = "loop"
    /\ steps_to_run[idx] \notin script_exists
    /\ AfterRunStep(steps_to_run[idx], FALSE,
                    {<<"SCRIPT NOT FOUND", steps_to_run[idx]>>})
    /\ UNCHANGED <<fsvars, args_step, steps_to_run, started, gen_exit,
                   datavars>>

\* mutant: the child process is started and not waited for
RunStepLaunch_nowait ==
    /\ pc = "loop"
    /\ steps_to_run[idx] \in script_exists
    /\ child' = steps_to_run[idx]
    /\ child_pc' = 0
    /\ started' = Append(started, steps_to_run[idx])
    /\ pc' = IF idx = Len(steps_to_run) THEN "child" ELSE "loop"
    /\ idx' = IF idx = Len(steps_to_run) THEN idx ELSE idx + 1
    /\ UNCHANGED <<fsvars, args_step, steps_to_run, results, printed,
                   exit_code, gen_exit, datavars>>

\* run_step: subprocess.run starts the child process and waits for it
RunStepLaunch ==
    /\ pc = "loop"
    /\ steps_to_run[idx] \in script_exists
    /\ child' = steps_to_run[idx]
    /\ child_pc' = 0
    /\ started' = Append(started, steps_to_run[idx])
    /\ pc' = "child"
    /\ UNCHANGED <<fsvars, args_step, steps_to_run, idx, results, printed,
                   exit_code, gen_exit, datavars>>

\* run_step: subprocess.run raises something other than TimeoutExpired (the
\* interpreter cannot be executed): "except Exception", return False
RunStepLaunchError ==
    /\ pc = "loop"
    /\ steps_to_run[idx] \in script_exists
    /\ AfterRunStep(steps_to_run[idx], FALSE, {<<"ERROR", steps_to_run[idx]>>})
    /\ UNCHANGED <<fsvars, args_step, steps_to_run, started, gen_exit,
                   datavars>>

\* the child process does its next file operation
ChildOp ==
    /\ pc = "child"
    /\ load_data_ok(db_exists)
    /\ child_pc < Len(GeneratorOps(child))
    /\ LET o == GeneratorOps(child)[child_pc + 1]
       IN  /\ OpApplicable(o, dirs)
           /\ dirs' = DirsAfter(o, dirs)
           /\ files' = FilesAfter(o, files)
    /\ child_pc' = child_pc + 1
    /\ UNCHANGED <<db_exists, script_exists, pc, args_step, steps_to_run, idx,
                   results, started, child, printed, exit_code, gen_exit,
                   datavars>>

\* mutant: a missing output makes the step fail
run_step_result_strict(k, returncode, f) ==
    IF returncode # 0
    THEN [success |-> FALSE, msgs |-> {<<"FAILED", k>>}]
    ELSE IF STEPS[k].outputs \ f # {}
    THEN [success |-> FALSE, msgs |-> {<<"MISSING OUTPUTS", k>>}]
    ELSE [success |-> TRUE, msgs |-> {<<"completed successfully", k>>}]

\* run_step after the child has exited with `returncode`: a non-zero code
\* returns False; otherwise the expected outputs are verified, and a missing
\* one is a warning, return True
run_step_result(k, returncode, f) ==
    IF returncode # 0
    THEN [success |-> FALSE, msgs |-> {<<"FAILED", k>>}]
    ELSE IF STEPS[k].outputs \ f # {}
    THEN [success |-> TRUE, msgs |-> {<<"MISSING OUTPUTS", k>>}]
    ELSE [success |-> TRUE, msgs |-> {<<"completed successfully", k>>}]

\* the child runs to its end: exit code 0 after its last operation, 1 when
\* load_data or a file operation raises
ChildExit ==
    /\ pc = "child"
    /\ LET ops == GeneratorOps(child)
           ends == IF ~load_data_ok(db_exists) THEN TRUE
                   ELSE IF child_pc = Len(ops) THEN TRUE
                   ELSE ~OpApplicable(ops[child_pc + 1], dirs)
           rc == IF load_data_ok(db_exists) /\ child_pc = Len(ops)
                 THEN 0 ELSE 1
           rs == run_step_result(child, rc, files)
       IN  /\ ends
           /\ AfterRunStep(child, rs.success, rs.msgs)
    /\ UNCHANGED <<fsvars, args_step, steps_to_run, started, gen_exit,
                   datavars>>

\* the child dies of an exception of its own (bad data, a missing package)
\* at any point of its run: a non-zero exit code
ChildCrash ==
    /\ pc = "child"
    /\ LET rs == run_step_result(child, 1, files)
       IN  AfterRunStep(child, rs.success, rs.msgs)
    /\ UNCHANGED <<fsvars, args_step, steps_to_run, started, gen_exit,
                   datavars>>

\* subprocess.run's timeout=300 expires: the child is killed wherever it is,
\* TimeoutExpired, return False
ChildTimeout ==
    /\ pc = "child"
    /\ AfterRunStep(child, FALSE, {<<"TIMEOUT", child>>})
    /\ UNCHANGED <<fsvars, args_step, steps_to_run, started, gen_exit,
                   datavars>>

\* a generator script run on its own, outside the runner
GenStandalone(k) ==
    /\ pc = "idle"
    /\ LET r == GeneratorMain(k, db_exists, dirs, files)
       IN  /\ dirs' = r.dirs
           /\ files' = r.files
           /\ db_exists' = r.db
           /\ gen_exit' = [gen_exit EXCEPT ![k] = [rc |-> r.rc, err |-> r.err]]
    /\ UNCHANGED <<script_exists, runvars, datavars>>

-----------------------------------------------------------------------------
(* pandas and Python helpers used by 01_summary_tables.py *)

\* a missing value (None / NaN) of a column
NaN == "NaN"

\* len(df): every column has the same length
RowsOf(df) == Len(df.Study_region_clean)

\* (series == v).sum()
CountOf(col, v) == Cardinality({i \in DOMAIN col : col[i] = v})

SeqRange(q) == {q[i] : i \in DOMAIN q}

\* the distinct non-missing values of a column in order of first appearance
Uniques(col) ==
    LET firsts == {i \in DOMAIN col :
                      col[i] # NaN /\ \A j \in 1..(i - 1) : col[j] # col[i]}
    IN  [k \in 1..Cardinality(firsts) |->
            col[CHOOSE i \in firsts :
                    Cardinality({j \in firsts : j < i}) = k - 1]]

\* list.sort(key=..., reverse=True) and sorted(..., reverse=True): s ordered
\* by descending key, elements of equal key in their order in s
SortDesc(s, keys) ==
    LET pos == [i \in DOMAIN s |->
                  Cardinality({j \in DOMAIN s : keys[j] > keys[i]})
                  + Cardinality({j \in DOMAIN s : j < i /\ keys[j] = keys[i]})
                  + 1]
    IN  [p \in DOMAIN s |-> s[CHOOSE i \in DOMAIN s : pos[i] = p]]

\* the enumerations of the set S
RECURSIVE Perms(_)
Perms(S) ==
    IF S = {} THEN {<<>>}
    ELSE UNION {{<<x>> \o p : p \in Perms(S \ {x})} : x \in S}

\* the orders of the positions whose key is below bound, by descending key
RECURSIVE OrdersBelow(_, _)
OrdersBelow(keys, bound) ==
    LET rest == {i \in DOMAIN keys : keys[i] < bound}
        top == CHOOSE k \in {keys[i] : i \in rest} :
                   \A i \in rest : keys[i] <= k
    IN  IF rest = {} THEN {<<>>}
        ELSE {p \o q : p \in Perms({i \in rest : keys[i] = top}),
                       q \in OrdersBelow(keys, top)}

\* sort_values(ascending=False), whose default kind is quicksort: every
\* order of s by descending key is a possible result, since the sort does
\* not say in which order it leaves elements of equal key (keys below 2^30)
sort_values_desc(s, keys) ==
    {[i \in DOMAIN s |-> s[p[i]]] : p \in OrdersBelow(keys, 2^30)}

\* Series.value_counts(): the non-missing values with their counts, sorted
\* by sort_values(ascending=False); the set of the possible results
value_counts(col) ==
    LET u == Uniques(col)
    IN  sort_values_desc([i \in DOMAIN u |-> [value |-> u[i],
                                              count |-> CountOf(col, u[i])]],
                         [i \in DOMAIN u |-> CountOf(col, u[i])])

\* Series.nunique()
nunique(col) == Cardinality(SeqRange(col) \ {NaN})

\* the order of str.__lt__ on the labels that the tables sort
Alphabetical ==
    << "A", "Agriculture", "B", "C", "D", "E", "Environmental", "F", "G",
       "H", "Hydropower", "Industrial", "Mixed", "R", "Social/Economic",
       "Urban/Municipal" >>

StrRank(v) == CHOOSE i \in DOMAIN Alphabetical : Alphabetical[i] = v

\* sorted(values): ascending
SortedAsc(q) == SortDesc(q, [i \in DOMAIN q |-> 0 - StrRank(q[i])])

-----------------------------------------------------------------------------
(* float64 arithmetic of the percentages.  A non-negative double is        *)
(* [m, e], the value m * 2^e; the natural number m is a sequence of limbs  *)
(* in base 2^LimbBits, least significant limb first, without leading zero  *)
(* limbs (0 is <<>>).  Counts and row numbers are below 2^21.              *)

LimbBits == 10

Limb == 2^LimbBits

\* the significand of a float64 has 53 bits
Precision == 53

\* the limbs of the quotient that float_div computes before it rounds
DivLimbs == 8

BigLimb(x, i) == IF i \in DOMAIN x THEN x[i] ELSE 0

BigNorm(x) ==
    LET nz == {i \in DOMAIN x : x[i] # 0}
    IN  IF nz = {} THEN <<>>
        ELSE SubSeq(x, 1, CHOOSE i \in nz : \A j \in nz : j <= i)

\* bit j of x (bit 0 is the lowest)
BigBit(x, j) == (BigLimb(x, (j \div LimbBits) + 1) \div 2^(j % LimbBits)) % 2

\* the number of bits of the natural number v < 2^30
BitLen(v) == CHOOSE k \in 0..30 : v < 2^k /\ (k = 0 \/ v >= 2^(k - 1))

BigBitLen(x) ==
    IF x = <<>> THEN 0 ELSE (Len(x) - 1) * LimbBits + BitLen(x[Len(x)])

\* v < 2^30 as limbs, and back
IntBig(v) ==
    BigNorm(<< v % Limb, (v \div Limb) % Limb, v \div (Limb * Limb) >>)

BigInt(x) == BigLimb(x, 1) + BigLimb(x, 2) * Limb + BigLimb(x, 3) * Limb * Limb

\* floor(x / 2^d)
BigShr(x, d) ==
    LET L == d \div LimbBits
        t == d % LimbBits
    IN  BigNorm([i \in 1..(Len(x) - L) |->
                    (BigLimb(x, i + L) \div 2^t)
                    + (BigLimb(x, i + L + 1) % 2^t) * 2^(LimbBits - t)])

\* x * 2^d
BigShl(x, d) ==
    LET L == d \div LimbBits
        t == d % LimbBits
    IN  BigNorm([i \in 1..(Len(x) + L + 1) |->
                    ((BigLimb(x, i - L) * 2^t) % Limb)
                    + (BigLimb(x, i - L - 1) \div 2^(LimbBits - t))])

\* x * c + carry for a factor c < 2^20
RECURSIVE BigMulCarry(_, _, _)
BigMulCarry(x, c, carry) ==
    IF x = <<>>
    THEN (IF carry = 0 THEN <<>>
          ELSE <<carry % Limb>> \o BigMulCarry(<<>>, c, carry \div Limb))
    ELSE <<(Head(x) * c + carry) % Limb>>
         \o BigMulCarry(Tail(x), c, (Head(x) * c + carry) \div Limb)

BigMul(x, c) == BigNorm(BigMulCarry(x, c, 0))

\* x + 1
BigInc(x) ==
    LET low == {i \in DOMAIN x : x[i] # Limb - 1}
    IN  IF low = {}
        THEN [i \in 1..(Len(x) + 1) |-> IF i = Len(x) + 1 THEN 1 ELSE 0]
        ELSE LET t == CHOOSE i \in low : \A j \in low : i <= j
             IN  [i \in DOMAIN x |->
                     IF i < t THEN 0 ELSE IF i = t THEN x[i] + 1 ELSE x[i]]

\* x - y for x >= y, from limb i on with a borrow
RECURSIVE BigSubFrom(_, _, _, _)
BigSubFrom(x, y, i, borrow) ==
    IF i > Len(x) THEN <<>>
    ELSE <<(x[i] - BigLimb(y, i) - borrow + Limb) % Limb>>
         \o BigSubFrom(x, y, i + 1,
                       IF x[i] - BigLimb(y, i) - borrow < 0 THEN 1 ELSE 0)

BigSub(x, y) == BigNorm(BigSubFrom(x, y, 1, 0))

\* x / 2^d rounded to the nearest natural number, a tie to the even one
BigRoundShr(x, d) ==
    LET q == BigShr(x, d)
        half == d >= 1 /\ BigBit(x, d - 1) = 1
        sticky == \E j \in 0..(d - 2) : BigBit(x, j) = 1
        odd == BigBit(q, 0) = 1
    IN  IF half /\ (sticky \/ odd) THEN BigInc(q) ELSE q

\* the result of an operation whose exact value is m * 2^e: the nearest
\* double, a tie to the even significand
Fl(m, e) ==
    IF BigBitLen(m) <= Precision THEN [m |-> m, e |-> e]
    ELSE [m |-> BigRoundShr(m, BigBitLen(m) - Precision),
          e |-> e + (BigBitLen(m) - Precision)]

\* the next k limbs of r / b for r < b, and the remainder they leave
RECURSIVE DivDigits(_, _, _)
DivDigits(r, b, k) ==
    IF k = 0 THEN <<>>
    ELSE DivDigits((r * Limb) % b, b, k - 1) \o <<(r * Limb) \div b>>

RECURSIVE DivRem(_, _, _)
DivRem(r, b, k) == IF k = 0 THEN r ELSE DivRem((r * Limb) % b, b, k - 1)

\* a / b in float64 for integers a >= 0, b > 0
float_div(a, b) ==
    LET n == DivDigits(a % b, b, DivLimbs) \o IntBig(a \div b)
        n2 == BigShl(BigNorm(n), 1)
    IN  IF a = 0 THEN [m |-> <<>>, e |-> 0]
        ELSE Fl(IF DivRem(a % b, b, DivLimbs) # 0 THEN BigInc(n2) ELSE n2,
                0 - (DivLimbs * LimbBits) - 1)

\* x * c in float64 for a natural number c < 2^20
float_mul(x, c) == Fl(BigMul(x.m, c), x.e)

\* 1 - x in float64 for 0 <= x <= 1
one_minus(x) ==
    IF x.m = <<>> THEN [m |-> <<1>>, e |-> 0]
    ELSE Fl(BigSub(BigShl(<<1>>, 0 - x.e), x.m), x.e)

\* the exact value x * 2^e as the nearest integer, a tie to the even one
RoundToInt(m, e) ==
    IF e >= 0 THEN BigInt(m) * 2^e ELSE BigInt(BigRoundShr(m, 0 - e))

\* numpy.rint(x)
rint(x) == RoundToInt(x.m, x.e)

\* numpy's round(x, 1), in tenths: rint(x * 10) / 10
np_round1(x) == rint(float_mul(x, 10))

\* Python's round(x, 1) of a float, in tenths: the exact value of x rounded
\* correctly
py_round1(x) == RoundToInt(BigMul(x.m, 10), x.e)

-----------------------------------------------------------------------------
(* The percentages of the tables, in tenths of a percent *)

\* mutant: the percentage is truncated, not rounded
Pct10_floor(count, n_total) == (1000 * count) \div n_total

\* round(count / n_total * 100, 1) for a count that is a Python int (the
\* counts that Series.items() yields): the built-in round of a float
Pct10(count, n_total) == py_round1(float_mul(float_div(count, n_total), 100))

\* mutant: the percentage is truncated, not rounded
Pct10_np_floor(count, n_total) == (1000 * count) \div n_total

\* round(count / n_total * 100, 1) for a count that is a numpy.int64 (an
\* element of the Series), and Series.round(1): numpy's round
Pct10_np(count, n_total) ==
    np_round1(float_mul(float_div(count, n_total), 100))

RECURSIVE SumSeq(_)
SumSeq(q) == IF q = <<>> THEN 0 ELSE Head(q) + SumSeq(Tail(q))

-----------------------------------------------------------------------------
(* The table generators: 01_summary_tables.py.  A generator gives the set  *)
(* of its possible results [err, rows], one for each result of an unstable *)
(* sort; err is the exception that ends the process, "" when none.         *)
(* Percentages are in tenths of a percent (667 is 66.7).                   *)

Raised(e) == [err |-> e, rows |-> <<>>]
Returned(rows) == [err |-> "", rows |-> rows]

CATEGORY_NAMES ==
    [A |-> "Hydropower scheduling and water values",
     B |-> "Stochastic programming for hydropower",
     C |-> "Hydro-economic modelling",
     D |-> "Irrigation and agricultural water value",
     E |-> "Urban and municipal water value",
     F |-> "Environmental and ecological water value",
     G |-> "Multi-purpose reservoir operation",
     H |-> "Water markets and pricing",
     R |-> "Review / Other"]

\* Table 1: Papers by Classification Category
generate_classification_table(df) ==
  { LET n_total == RowsOf(df)
        cats == SortedAsc([i \in DOMAIN counts |-> counts[i].value])
        rows == [i \in DOMAIN cats |->
                    [Category |-> cats[i],
                     Category_Name |->
                        IF cats[i] \in DOMAIN CATEGORY_NAMES
                        THEN CATEGORY_NAMES[cats[i]]
                        ELSE "[Category name - see article.txt]",
                     Count |-> CountOf(df.Classification, cats[i]),
                     Percentage |->
                        Pct10_np(CountOf(df.Classification, cats[i]), n_total)]]
    IN  Returned(Append(rows, [Category |-> "Total", Category_Name |-> "",
                               Count |-> n_total, Percentage |-> 1000]))
    : counts \in value_counts(df.Classification) }

\* Table 2: Papers by Method Type
generate_method_table(df) ==
  { LET n_total == RowsOf(df)
        rows == [i \in DOMAIN counts |->
                    [Method |-> counts[i].value,
                     Count |-> counts[i].count,
                     Percentage |-> Pct10(counts[i].count, n_total)]]
        sorted == SortDesc(rows, [i \in DOMAIN rows |-> rows[i].Count])
    IN  Returned(Append(sorted, [Method |-> "Total", Count |-> n_total,
                                 Percentage |-> 1000]))
    : counts \in value_counts(df.Method_clean) }

\* generate_region_table: "Countries with count < 3 grouped under Other"
RegionThreshold == 3

always_show == {"Not specified", "Synthetic/Theoretical"}

\* f"Other ({n_other_entries} countries/regions)"
OtherLabel(n) == "Other (" \o ToString(n) \o " countries/regions)"

\* mutant: a region needs more than the threshold to be listed
ShownIndividually_above(region, count) ==
    region \in always_show \/ count > RegionThreshold

\* mutant: sentinels are bucketed like every other region
ShownIndividually_nosentinel(region, count) == count >= RegionThreshold

\* generate_region_table: the branch of the bucketing loop that keeps a
\* region as its own entry
ShownIndividually(region, count) ==
    region \in always_show \/ count >= RegionThreshold

\* mutant: the Other row is never appended
RegionRows_noother(main_rows, other_rows) ==
    SortDesc(main_rows, [i \in DOMAIN main_rows |-> main_rows[i].Count])

\* mutant: the Other row is appended after the sort
RegionRows_otherlast(main_rows, other_rows) ==
    SortDesc(main_rows, [i \in DOMAIN main_rows |-> main_rows[i].Count])
    \o other_rows

\* generate_region_table: rows with the Other row appended, then
\* rows.sort(key=Count, reverse=True)
RegionRows(main_rows, other_rows) ==
    LET rows == main_rows \o other_rows
    IN  SortDesc(rows, [i \in DOMAIN rows |-> rows[i].Count])

\* Table 3: Papers by Study Region / Country
generate_region_table(df) ==
  { LET n_total == RowsOf(df)
        main_entries == SelectSeq(raw_counts,
                            LAMBDA e : ShownIndividually(e.value, e.count))
        merged == SelectSeq(raw_counts,
                            LAMBDA e : ~ShownIndividually(e.value, e.count))
        other_count == SumSeq([i \in DOMAIN merged |-> merged[i].count])
        n_other_entries == Len(merged)
        main_rows == [i \in DOMAIN main_entries |->
                        [Country_or_Region |-> main_entries[i].value,
                         Count |-> main_entries[i].count,
                         Percentage |-> Pct10(main_entries[i].count, n_total)]]
        other_rows == IF other_count > 0
                      THEN << [Country_or_Region |-> OtherLabel(n_other_entries),
                               Count |-> other_count,
                               Percentage |-> Pct10(other_count, n_total)] >>
                      ELSE <<>>
    IN  \* not_specified_count / n_total: 0 / 0 on an empty table
        IF n_total = 0 THEN Raised("ZeroDivisionError")
        ELSE Returned(Append(RegionRows(main_rows, other_rows),
                             [Country_or_Region |-> "Total",
                              Count |-> n_total, Percentage |-> 1000]))
    : raw_counts \in value_counts(df.Study_region_clean) }

\* the labels of the Decade column ("2000-2004" stands for the en-dash
\* label of the source)
decade_order == << "Pre-2000", "2000-2004", "2005-2009",
                   "2010-2014", "2015-2019", "2020-2025" >>

\* mutant: only the year ranges that occur are listed, by descending count
generate_year_table_present(df) ==
  { LET n_total == RowsOf(df)
        rows == [i \in DOMAIN counts |->
                    [Year_Range |-> counts[i].value,
                     Count |-> counts[i].count,
                     Percentage |-> Pct10_np(counts[i].count, n_total)]]
    IN  IF n_total = 0 THEN Raised("ZeroDivisionError")
        ELSE Returned(Append(rows, [Year_Range |-> "Total",
                                    Count |-> n_total, Percentage |-> 1000]))
    : counts \in value_counts(df.Decade) }

\* Table 4: Papers by Publication Year Range
generate_year_table(df) ==
    LET n_total == RowsOf(df)
        rows == [i \in DOMAIN decade_order |->
                    [Year_Range |-> decade_order[i],
                     Count |-> CountOf(df.Decade, decade_order[i]),
                     Percentage |->
                        Pct10_np(CountOf(df.Decade, decade_order[i]), n_total)]]
    IN  \* count / n_total with count = decade_counts.get(decade, 0)
        {IF n_total = 0 THEN Raised("ZeroDivisionError")
         ELSE Returned(Append(rows, [Year_Range |-> "Total",
                                     Count |-> n_total, Percentage |-> 1000]))}

\* Table 5: Water Value Summary Statistics (the statistics of the ID and
\* Purpose_clean columns)
generate_wv_summary_table(dfc, dfw) ==
    \* int(df_wv[year_col].min()) of an empty column
    IF Len(dfw.ID) = 0 THEN {Raised("ValueError")}
    ELSE {Returned(
        << [Statistic |-> "Total papers reporting numerical water values",
            Value |-> ToString(nunique(dfw.ID))],
           [Statistic |-> "Total water value data points",
            Value |-> ToString(Len(dfw.ID))],
           [Statistic |-> "Purpose categories",
            Value |-> ToString(nunique(dfw.Purpose_clean))] >>)}

\* mutant: the purpose rows stay in the order of the groupby keys
generate_wv_purpose_table_unsorted(dfw) ==
    LET n_total == Len(dfw.ID)
        keys == SortedAsc(Uniques(dfw.Purpose_clean))
        in(k) == {i \in DOMAIN dfw.ID : dfw.Purpose_clean[i] = k}
        rows == [g \in DOMAIN keys |->
                    [Purpose |-> keys[g],
                     Data_Points_Count |-> Cardinality(in(keys[g])),
                     Papers_Count |->
                        Cardinality({dfw.ID[i] : i \in in(keys[g])} \ {NaN}),
                     Pct_of_Data_Points |->
                        Pct10_np(Cardinality(in(keys[g])), n_total)]]
    IN  {Returned(Append(rows, [Purpose |-> "Total",
                                Data_Points_Count |-> n_total,
                                Papers_Count |-> nunique(dfw.ID),
                                Pct_of_Data_Points |-> 1000]))}

\* Table 6: Water Values by Purpose (without the Countries_Count and
\* Continents_Count columns)
generate_wv_purpose_table(dfw) ==
    LET n_total == Len(dfw.ID)
        \* groupby("Purpose_clean"): the groups in sorted key order
        keys == SortedAsc(Uniques(dfw.Purpose_clean))
        in(k) == {i \in DOMAIN dfw.ID : dfw.Purpose_clean[i] = k}
        stats == [g \in DOMAIN keys |->
                    [Purpose |-> keys[g],
                     Data_Points_Count |-> Cardinality(in(keys[g])),
                     Papers_Count |->
                        Cardinality({dfw.ID[i] : i \in in(keys[g])} \ {NaN}),
                     Pct_of_Data_Points |->
                        Pct10_np(Cardinality(in(keys[g])), n_total)]]
    IN  {Returned(Append(sorted, [Purpose |-> "Total",
                                  Data_Points_Count |-> n_total,
                                  Papers_Count |-> nunique(dfw.ID),
                                  Pct_of_Data_Points |-> 1000])) :
            sorted \in sort_values_desc(stats,
                          [g \in DOMAIN stats |-> stats[g].Data_Points_Count])}

-----------------------------------------------------------------------------
(* main() of 01_summary_tables.py: the six tables, one after the other *)

TableKeys == << "table_1", "table_2", "table_3",
                "table_4", "table_5", "table_6" >>

\* main: tables["table_k"] = generate_...(...), the possible results
GenerateTable(k, dfc, dfw) ==
    CASE k = 1 -> generate_classification_table(dfc)
      [] k = 2 -> generate_method_table(dfc)
      [] k = 3 -> generate_region_table(dfc)
      [] k = 4 -> generate_year_table(dfc)
      [] k = 5 -> generate_wv_summary_table(dfc, dfw)
      [] k = 6 -> generate_wv_purpose_table(dfw)

\* one table generator call of main; an exception ends the process
TableStep(k) ==
    /\ t_pc = k - 1
    /\ \E r \in GenerateTable(k, df_class, df_wv) :
           IF r.err # ""
           THEN /\ t_pc' = 0 - k
                /\ tables' = tables
           ELSE /\ t_pc' = k
                /\ tables' = [key \in DOMAIN tables \cup {TableKeys[k]} |->
                                IF key = TableKeys[k] THEN r.rows
                                ELSE tables[key]]
    /\ UNCHANGED <<fsvars, runvars, gen_exit, df_class, df_wv,
                   chartvars, heatvars>>

Table1Step == TableStep(1)
Table2Step == TableStep(2)
Table3Step == TableStep(3)
Table4Step == TableStep(4)
Table5Step == TableStep(5)
Table6Step == TableStep(6)

-----------------------------------------------------------------------------
(* Chart 1 of 03_analytical_charts.py: create_year_method_stacked.         *)
(* A rolling mean is kept exactly, as the sum and the number of the values *)
(* it averages; n = 0 is the missing value (NaN).                          *)

METHOD_ORDER ==
    << "LP", "MILP", "SDP", "SDDP", "Econ-Engi", "Other", "Not available" >>

\* rolling(window=3, center=True, min_periods=2)
Window3 == 3
MinPeriods3 == 2

\* rolling(window=5, center=True, min_periods=3)
Window5 == 5
MinPeriods5 == 3

SetMin(S) == CHOOSE x \in S : \A y \in S : x <= y
SetMax(S) == CHOOSE x \in S : \A y \in S : x >= y

\* pd.crosstab(df["Year_numeric"], df["Method_clean"]).index
CrosstabIndex(df) == SeqRange(df.Year_numeric)

\* one cell of the crosstab; 0 for a year or a method that does not occur
CrosstabCell(df, y, m) ==
    Cardinality({i \in DOMAIN df.Year_numeric :
                    df.Year_numeric[i] = y /\ df.Method_clean[i] = m})

\* year_method[METHOD_ORDER].sum(axis=1) at year y
YearTotal(df, y) ==
    SumSeq([j \in DOMAIN METHOD_ORDER |-> CrosstabCell(df, y, METHOD_ORDER[j])])

\* mutant: the chart starts at the first publication year
StartYear_first(df) == SetMin(CrosstabIndex(df))

\* the first year, before the last, whose 3-year window holds two papers;
\* the first year of all when there is none
StartYear(df) ==
    LET year_min == SetMin(CrosstabIndex(df))
        year_max == SetMax(CrosstabIndex(df))
        window(yr) == YearTotal(df, yr) + YearTotal(df, yr + 1)
                      + YearTotal(df, yr + 2)
        found == {yr \in year_min..(year_max - 1) : window(yr) >= 2}
    IN  IF found = {} THEN year_min ELSE SetMin(found)

\* range(start_year, year_max + 1)
AllYears(start_year, year_max) ==
    [i \in 1..(year_max - start_year + 1) |-> start_year + i - 1]

NaNMean == [sum |-> 0, n |-> 0]

\* mutant: the rolling mean with no minimum number of values
Rolling_nomin(q, window, min_periods) ==
    LET half == (window - 1) \div 2
        inside(i) == {j \in DOMAIN q : i - half <= j /\ j <= i + half}
    IN  [i \in DOMAIN q |->
            [sum |-> SumSeq([k \in 1..window |->
                        IF i - half + k - 1 \in DOMAIN q
                        THEN q[i - half + k - 1] ELSE 0]),
             n |-> Cardinality(inside(i))]]

\* mutant: the rolling mean that drops the edge positions, whose window
\* is not whole
Rolling_dropedges(q, window, min_periods) ==
    LET half == (window - 1) \div 2
    IN  [i \in (1 + half)..(Len(q) - half) |->
            [sum |-> SumSeq([k \in 1..window |-> q[i - half + k - 1]]),
             n |-> window]]

\* Series.rolling(window, center=True, min_periods).mean(): at position i
\* the window is the positions i - half .. i + half that exist
Rolling(q, window, min_periods) ==
    LET half == (window - 1) \div 2
        inside(i) == {j \in DOMAIN q : i - half <= j /\ j <= i + half}
    IN  [i \in DOMAIN q |->
            IF Cardinality(inside(i)) < min_periods THEN NaNMean
            ELSE [sum |-> SumSeq([k \in 1..window |->
                            IF i - half + k - 1 \in DOMAIN q
                            THEN q[i - half + k - 1] ELSE 0]),
                  n |-> Cardinality(inside(i))]]

\* a.sum / a.n < b.sum / b.n
MeanLess(a, b) == a.sum * b.n < b.sum * a.n

\* Series.idxmax(): the first position of the largest value that is not
\* missing; 0 when every value is missing
idxmax(ma) ==
    LET present == {i \in DOMAIN ma : ma[i].n > 0}
    IN  IF present = {} THEN 0
        ELSE SetMin({i \in present :
                        \A j \in present : ~MeanLess(ma[i], ma[j])})

NoChart1 ==
    [start_year |-> 0, year_max |-> 0, all_years |-> <<>>,
     year_method |-> <<>>, annual_totals |-> <<>>,
     ma_3yr |-> <<>>, ma_5yr |-> <<>>,
     peak_3yr |-> 0, peak_5yr |-> 0, caption |-> <<>>]

\* create_year_method_stacked up to the rolling means (lines 200-233)
Chart1Series(df) ==
    LET start_year == StartYear(df)
        year_max == SetMax(CrosstabIndex(df))
        all_years == AllYears(start_year, year_max)
        annual_totals == [i \in DOMAIN all_years |->
                            YearTotal(df, all_years[i])]
    IN  [start_year |-> start_year, year_max |-> year_max,
         all_years |-> all_years,
         year_method |-> [i \in DOMAIN all_years |->
                            [j \in DOMAIN METHOD_ORDER |->
                                CrosstabCell(df, all_years[i],
                                             METHOD_ORDER[j])]],
         annual_totals |-> annual_totals,
         ma_3yr |-> Rolling(annual_totals, Window3, MinPeriods3),
         ma_5yr |-> Rolling(annual_totals, Window5, MinPeriods5),
         peak_3yr |-> 0, peak_5yr |-> 0, caption |-> <<>>]

\* the caption of Chart 1: "... of N papers (start-end) ... peaks at ..."
Chart1Caption(df, c, peak_5yr) ==
    [n_papers |-> RowsOf(df), start_year |-> c.start_year,
     year_max |-> c.year_max, peak_year |-> peak_5yr,
     peak_value |-> c.ma_5yr[peak_5yr - c.start_year + 1]]

\* create_year_method_stacked, first part: int(year_totals.index.min())
\* raises ValueError when no row has a year
Chart1Compute ==
    /\ c_pc = 0
    /\ IF CrosstabIndex(df_class) = {}
       THEN /\ c_pc' = 0 - 1
            /\ chart1' = chart1
       ELSE /\ c_pc' = 1
            /\ chart1' = Chart1Series(df_class)
    /\ UNCHANGED <<fsvars, runvars, gen_exit, df_class, df_wv, tables, t_pc,
                   chart2, heatvars>>

\* create_year_method_stacked, second part: the peaks, the figure files and
\* the caption.  ma.loc[ma.idxmax()] raises when every value of ma is
\* missing.
Chart1Report ==
    /\ c_pc = 1
    /\ LET p3 == idxmax(chart1.ma_3yr)
           p5 == idxmax(chart1.ma_5yr)
           r == RunOps(SaveFigure("fig_year_method_stacked"), 1, dirs, files)
       IN  IF p3 = 0 \/ p5 = 0
           THEN /\ c_pc' = 0 - 2
                /\ UNCHANGED <<chart1, dirs, files>>
           ELSE /\ c_pc' = 2
                /\ dirs' = r.dirs
                /\ files' = r.files
                /\ chart1' =
                     [chart1 EXCEPT
                        !.peak_3yr = chart1.all_years[p3],
                        !.peak_5yr = chart1.all_years[p5],
                        !.caption = Chart1Caption(df_class, chart1,
                                                  chart1.all_years[p5])]
    /\ UNCHANGED <<db_exists, script_exists, runvars, gen_exit, df_class,
                   df_wv, tables, t_pc, chart2, heatvars>>

-----------------------------------------------------------------------------
(* Chart 2 of 03_analytical_charts.py: create_geographic_distribution *)

\* regular_sorted[:15]
TopN == 15

special_categories == {"Not specified", "Synthetic/Theoretical"}

\* f"Other ({n_other} regions)"
OtherBarLabel(n) == "Other (" \o ToString(n) \o " regions)"

\* s[a..]: the elements of s from position a on
SeqFrom(s, a) == [i \in 1..(Len(s) - a + 1) |-> s[a + i - 1]]

\* s[:n]: the first n elements of s, all of them when there are fewer
SeqFirst(s, n) == [i \in 1..(IF Len(s) < n THEN Len(s) ELSE n) |-> s[i]]

\* reversed(s)
Reversed(s) == [i \in DOMAIN s |-> s[Len(s) + 1 - i]]

Bar(label, count) == [label |-> label, count |-> count]

\* mutant: the regions shown individually are those Table 3 lists, the
\* regions with at least 3 papers
TopRegions_threshold(regular_sorted) ==
    SelectSeq(regular_sorted, LAMBDA x : x.count >= RegionThreshold)

\* mutant: one region more is shown individually
TopRegions_more(regular_sorted) == SeqFirst(regular_sorted, TopN + 1)

\* top_15 = regular_sorted[:15]
TopRegions(regular_sorted) == SeqFirst(regular_sorted, TopN)

\* create_geographic_distribution: display_data and the caption's numbers,
\* one result for each order value_counts can give.
\* The "Not specified" share is a division by len(df), and max(counts)
\* needs a bar.
create_geographic_distribution(df) ==
  { LET n_total == RowsOf(df)
        special == SelectSeq(region_counts,
                             LAMBDA x : x.value \in special_categories)
        regular == SelectSeq(region_counts,
                             LAMBDA x : x.value \notin special_categories)
        regular_sorted ==
            SortDesc(regular, [i \in DOMAIN regular |-> regular[i].count])
        top_15 == TopRegions(regular_sorted)
        rest == SeqFrom(regular_sorted, Len(top_15) + 1)
        other_count == SumSeq([i \in DOMAIN rest |-> rest[i].count])
        n_other == Len(rest)
        special_count(cat) == CountOf(df.Study_region_clean, cat)
        special_bars(cat) ==
            IF \E i \in DOMAIN special : special[i].value = cat
            THEN << Bar(cat, special_count(cat)) >> ELSE <<>>
        display_data ==
            special_bars("Not specified")
            \o special_bars("Synthetic/Theoretical")
            \o (IF other_count > 0
                THEN << Bar(OtherBarLabel(n_other), other_count) >>
                ELSE <<>>)
            \o Reversed([i \in DOMAIN top_15 |->
                            Bar(top_15[i].value, top_15[i].count)])
    IN  IF n_total = 0
        THEN [err |-> "ZeroDivisionError", display_data |-> <<>>,
              n_total |-> 0, n_top |-> 0]
        ELSE [err |-> "", display_data |-> display_data,
              n_total |-> n_total, n_top |-> Len(top_15)]
    : region_counts \in value_counts(df.Study_region_clean) }

NoChart2 == [display_data |-> <<>>, n_total |-> 0, n_top |-> 0]

\* main: create_geographic_distribution(df_class), with its figure files
Chart2Step ==
    /\ c_pc = 2
    /\ \E r \in create_geographic_distribution(df_class),
          w \in {RunOps(SaveFigure("fig_geographic_distribution"), 1,
                        dirs, files)} :
           IF r.err # ""
           THEN /\ c_pc' = 0 - 3
                /\ UNCHANGED <<chart2, dirs, files>>
           ELSE /\ c_pc' = 3
                /\ dirs' = w.dirs
                /\ files' = w.files
                /\ chart2' = [display_data |-> r.display_data,
                              n_total |-> r.n_total, n_top |-> r.n_top]
    /\ UNCHANGED <<db_exists, script_exists, runvars, gen_exit, df_class,
                   df_wv, tables, t_pc, chart1, heatvars>>

\* the chart generator has not run
ChartsIdle ==
    /\ chart1 = NoChart1
    /\ chart2 = NoChart2
    /\ c_pc = 0

-----------------------------------------------------------------------------
(* 02_completeness_heatmap.py: calculate_completeness *)

TableNames == << "01_Screening", "02_Classification", "03_WaterValue" >>

DERIVED_COLS_CLASSIFICATION ==
    { "Year_numeric", "Decade", "Has_water_value", "Method_clean",
      "Method_category", "Method_detail", "Study_region_clean",
      "Study_region_continent" }

DERIVED_COLS_WATERVALUE ==
    { "Country_clean", "Purpose_clean", "Continent", "Method_clean",
      "Method_category", "Method_detail", "units_clean" }

exclude_map(name) ==
    CASE name = "01_Screening" -> {}
      [] name = "02_Classification" -> DERIVED_COLS_CLASSIFICATION
      [] name = "03_WaterValue" -> DERIVED_COLS_WATERVALUE

\* cols = [c for c in df.columns if c not in exclude]
OriginalCols(d, name) == DOMAIN d[name] \ exclude_map(name)

\* len(df) of a table of dfs
TableRows(df) ==
    IF DOMAIN df = {} THEN 0 ELSE Len(df[CHOOSE c \in DOMAIN df : TRUE])

\* mutant: the share of the null values, not of the non-null values
CompletenessPct_isna(col) ==
    rint(float_mul(float_div(CountOf(col, NaN), Len(col)), 100))

\* ((1 - col.isna().mean()) * 100).round(0).astype(int) of a column that
\* has rows, in float64
CompletenessPct(col) ==
    rint(float_mul(one_minus(float_div(CountOf(col, NaN), Len(col))), 100))

\* calculate_completeness(dfs): the mean of no rows is NaN, and
\* astype(int) raises on it
calculate_completeness(d) ==
    IF \E i \in DOMAIN TableNames :
            /\ OriginalCols(d, TableNames[i]) # {}
            /\ TableRows(d[TableNames[i]]) = 0
    THEN [err |-> "IntCastingNaNError", pct |-> <<>>]
    ELSE [err |-> "",
          pct |-> [name \in SeqRange(TableNames) |->
                    [c \in OriginalCols(d, name) |->
                        CompletenessPct(d[name][c])]]]

\* main: completeness = calculate_completeness(dfs)
CalculateCompleteness ==
    /\ h_pc = 0
    /\ LET r == calculate_completeness(dfs)
       IN  IF r.err # ""
           THEN /\ h_pc' = 0 - 1
                /\ completeness' = completeness
           ELSE /\ h_pc' = 1
                /\ completeness' = r.pct
    /\ UNCHANGED <<fsvars, runvars, gen_exit, df_class, df_wv, tables, t_pc,
                   chartvars, dfs, summary>>

\* print_completeness_summary: for each table the number of columns, of
\* columns at 100, of columns strictly between 0 and 100, and of columns
\* at 0
completeness_summary(comp) ==
    [name \in DOMAIN comp |->
        LET pct == comp[name]
        IN  [n_cols |-> Cardinality(DOMAIN pct),
             n_complete |-> Cardinality({c \in DOMAIN pct : pct[c] = 100}),
             n_partial |-> Cardinality({c \in DOMAIN pct :
                                          pct[c] > 0 /\ pct[c] < 100}),
             n_empty |-> Cardinality({c \in DOMAIN pct : pct[c] = 0})]]

\* main: create_heatmap, generate_caption and print_completeness_summary
HeatmapAndSummary ==
    /\ h_pc = 1
    /\ \E w \in {RunOps(SubSeq(HeatmapOps, 1, 4), 1, dirs, files)} :
          /\ dirs' = w.dirs
          /\ files' = w.files
    /\ summary' = completeness_summary(completeness)
    /\ h_pc' = 2
    /\ UNCHANGED <<db_exists, script_exists, runvars, gen_exit, df_class,
                   df_wv, tables, t_pc, chartvars, dfs, completeness>>

NoDfs == [name \in SeqRange(TableNames) |-> <<>>]

\* the heatmap generator has not run
HeatIdle ==
    /\ dfs = NoDfs
    /\ completeness = <<>>
    /\ summary = <<>>
    /\ h_pc = 0

-----------------------------------------------------------------------------
(* Table data *)

EmptyClass == [Classification |-> <<>>, Method_clean |-> <<>>,
               Study_region_clean |-> <<>>, Decade |-> <<>>,
               Year_numeric |-> <<>>]
EmptyWv == [ID |-> <<>>, Purpose_clean |-> <<>>]

\* no table generator is running
DataIdle ==
    /\ df_class = EmptyClass
    /\ df_wv = EmptyWv
    /\ tables = <<>>
    /\ t_pc = 0
    /\ ChartsIdle
    /\ HeatIdle

\* the values the columns are drawn from
ClassificationValues == {"A", "B", "R"}
MethodValues == {"LP", "SDP", "Not available"}
RegionValues == {"Not specified", "Synthetic/Theoretical",
                 "Brazil", "Norway", "Chile"}
DecadeValues == {"Pre-2000", "2010-2014", "2020-2025"}
PaperIds == {"P1", "P2"}
PurposeValues == {"Hydropower", "Agriculture"}

ColumnValues ==
    [Classification |-> ClassificationValues, Method_clean |-> MethodValues,
     Study_region_clean |-> RegionValues, Decade |-> DecadeValues]

\* a classification table of n rows in which column c holds col and every
\* other column holds one value
ClassWith(c, col) ==
    LET n == Len(col)
        fill(v) == [i \in 1..n |-> v]
    IN  [Classification |-> IF c = "Classification" THEN col ELSE fill("A"),
         Method_clean |-> IF c = "Method_clean" THEN col ELSE fill("LP"),
         Study_region_clean |->
            IF c = "Study_region_clean" THEN col ELSE fill("Brazil"),
         Decade |-> IF c = "Decade" THEN col ELSE fill("2020-2025"),
         Year_numeric |-> IF c = "Year_numeric" THEN col ELSE fill(2020)]

OneRowWv == [ID |-> <<"P1">>, Purpose_clean |-> <<"Hydropower">>]

\* the tables as load_data returns them: the cleaned columns are never
\* missing, and the tables are read once and not changed
InitTables ==
    /\ pc = "idle"
    /\ db_exists = TRUE
    /\ script_exists = StepNumbers
    /\ dirs = {}
    /\ files = {}
    /\ args_step = 0
    /\ steps_to_run = <<>>
    /\ idx = 0
    /\ results = <<>>
    /\ started = <<>>
    /\ child = 0
    /\ child_pc = 0
    /\ printed = {}
    /\ exit_code = NoExit
    /\ gen_exit = [k \in StepNumbers |-> [rc |-> NoExit, err |-> ""]]
    /\ tables = <<>>
    /\ t_pc = 0
    /\ ChartsIdle
    /\ HeatIdle
    /\ \/ /\ df_wv = OneRowWv
          /\ \E n \in 0..MaxRows, c \in DOMAIN ColumnValues :
                \E col \in [1..n -> ColumnValues[c]] :
                    df_class = ClassWith(c, col)
       \/ /\ df_class = ClassWith("Decade", <<"2020-2025">>)
          /\ \E m \in 0..MaxWvRows :
                \E ids \in [1..m -> PaperIds],
                   purposes \in [1..m -> PurposeValues] :
                    df_wv = [ID |-> ids, Purpose_clean |-> purposes]

NextTables ==
    \/ Table1Step
    \/ Table2Step
    \/ Table3Step
    \/ Table4Step
    \/ Table5Step
    \/ Table6Step

SpecTables == InitTables /\ [][NextTables]_vars

-----------------------------------------------------------------------------
(* SpecCharts: Chart 1 of the chart generator on bounded inputs *)

\* the store exists and nothing has run
FreshPipeline ==
    /\ pc = "idle"
    /\ db_exists = TRUE
    /\ script_exists = StepNumbers
    /\ dirs = {}
    /\ files = {}
    /\ args_step = 0
    /\ steps_to_run = <<>>
    /\ idx = 0
    /\ results = <<>>
    /\ started = <<>>
    /\ child = 0
    /\ child_pc = 0
    /\ printed = {}
    /\ exit_code = NoExit
    /\ gen_exit = [k \in StepNumbers |-> [rc |-> NoExit, err |-> ""]]

\* the publication years of the papers
YearValues == 2000..(1999 + YearSpan)

\* a classification table with the given years, whose first split rows
\* use one method and the others another
ChartClass(years, split) ==
    [ClassWith("Year_numeric", years) EXCEPT
        !.Method_clean = [i \in DOMAIN years |->
                            IF i <= split THEN "LP" ELSE "SDP"]]

InitCharts ==
    /\ FreshPipeline
    /\ df_wv = OneRowWv
    /\ tables = <<>>
    /\ t_pc = 0
    /\ ChartsIdle
    /\ HeatIdle
    /\ \E n \in 0..MaxChartRows :
        \E years \in [1..n -> YearValues], split \in 0..n :
            df_class = ChartClass(years, split)

NextCharts ==
    \/ Chart1Compute
    \/ Chart1Report

SpecCharts == InitCharts /\ [][NextCharts]_vars

-----------------------------------------------------------------------------
(* SpecRegions: Table 3 and Chart 2 on the same classification table *)

RegionName(i) == "R" \o ToString(i)

\* n rows of the value v
Repeat(v, n) == [i \in 1..n |-> v]

\* the rows of regions i..r: region j has base + (r - j) papers, so the
\* counts fall from region to region, but region t has one paper less and
\* so as many as region t + 1
RECURSIVE RegionRowsFrom(_, _, _, _)
RegionRowsFrom(i, r, base, t) ==
    IF i > r THEN <<>>
    ELSE Repeat(RegionName(i), base + (r - i) - (IF i = t THEN 1 ELSE 0))
         \o RegionRowsFrom(i + 1, r, base, t)

\* a classification table with r regions and the sentinels, over three
\* publication years
RegionClass(r, base, t, ns, nt) ==
    LET col == Repeat("Not specified", ns)
               \o RegionRowsFrom(1, r, base, t)
               \o Repeat("Synthetic/Theoretical", nt)
    IN  [ClassWith("Study_region_clean", col) EXCEPT
            !.Year_numeric = [i \in DOMAIN col |-> 2020 + (i % 3)]]

InitRegions ==
    /\ FreshPipeline
    /\ df_wv = OneRowWv
    /\ tables = <<>>
    /\ t_pc = 0
    /\ ChartsIdle
    /\ HeatIdle
    /\ \E r \in 0..MaxRegions, base \in {1, RegionThreshold},
          ns \in 0..1, nt \in 0..1 :
        \E t \in {0, 1, TopN} \cap 0..(r - 1) :
            df_class = RegionClass(r, base, t, ns, nt)

NextRegions ==
    \/ Table1Step
    \/ Table2Step
    \/ Table3Step
    \/ Chart1Compute
    \/ Chart1Report
    \/ Chart2Step

SpecRegions == InitRegions /\ [][NextRegions]_vars

-----------------------------------------------------------------------------
(* SpecHeat: calculate_completeness on bounded inputs *)

\* a table of n rows with one original column and one derived column,
\* which is complete
HeatTable(orig, derived, col) ==
    [c \in {orig, derived} |->
        IF c = orig THEN col ELSE [i \in DOMAIN col |-> "v"]]

HeatColumns ==
    [i \in DOMAIN TableNames |->
        CASE i = 1 -> [orig |-> "Title", derived |-> "Abstract"]
          [] i = 2 -> [orig |-> "Classification", derived |-> "Decade"]
          [] i = 3 -> [orig |-> "Water_value", derived |-> "Purpose_clean"]]

\* a column of LongColRows rows of which the first k are null
LongColumn(k) == [i \in 1..LongColRows |-> IF i <= k THEN NaN ELSE "v"]

\* the three tables, of which table t holds col in its original column
DfsWith(t, col) ==
    [name \in SeqRange(TableNames) |->
        LET i == CHOOSE j \in DOMAIN TableNames : TableNames[j] = name
        IN  HeatTable(HeatColumns[i].orig, HeatColumns[i].derived,
                      IF i = t THEN col ELSE <<"v", NaN>>)]

InitHeat ==
    /\ FreshPipeline
    /\ df_class = EmptyClass
    /\ df_wv = EmptyWv
    /\ tables = <<>>
    /\ t_pc = 0
    /\ ChartsIdle
    /\ completeness = <<>>
    /\ summary = <<>>
    /\ h_pc = 0
    /\ \/ \E t \in DOMAIN TableNames, n \in 0..MaxColRows :
            \E col \in [1..n -> {NaN, "v"}] :
                dfs = DfsWith(t, col)
       \/ \E t \in DOMAIN TableNames, k \in 0..LongColRows :
            dfs = DfsWith(t, LongColumn(k))

NextHeat ==
    \/ CalculateCompleteness
    \/ HeatmapAndSummary

SpecHeat == InitHeat /\ [][NextHeat]_vars

-----------------------------------------------------------------------------
(* Spec: the runner and the generators on the file system *)

Init ==
    /\ db_exists \in BOOLEAN
    /\ script_exists \in SUBSET StepNumbers
    /\ dirs \in SUBSET AllDirs
    /\ files = {}
    /\ pc = "idle"
    /\ args_step = 0
    /\ steps_to_run = <<>>
    /\ idx = 0
    /\ results = <<>>
    /\ started = <<>>
    /\ child = 0
    /\ child_pc = 0
    /\ printed = {}
    /\ exit_code = NoExit
    /\ gen_exit = [k \in StepNumbers |-> [rc |-> NoExit, err |-> ""]]
    /\ DataIdle

Next ==
    \/ \E step \in StepArgs : MainStart(step)
    \/ RunStepScriptMissing
    \/ RunStepLaunch
    \/ RunStepLaunchError
    \/ ChildOp
    \/ ChildExit
    \/ ChildCrash
    \/ ChildTimeout
    \/ \E k \in StepNumbers : GenStandalone(k)

Spec == Init /\ [][Next]_vars

-----------------------------------------------------------------------------
(* Properties of the runner *)

Range(q) == {q[i] : i \in DOMAIN q}

FailureTags == {"TIMEOUT", "FAILED", "ERROR", "SCRIPT NOT FOUND"}

\* C1: in a full run (--step 0), once the child of step k has timed out or
\* exited non-zero, step k is recorded as failed, the runner has halted, no
\* step after k was started or given a result, and the summary shows step k
\* as FAIL and every later step as SKIP.
C1_FullRunHaltsAtFailure ==
    args_step = 0 =>
        \A k \in StepNumbers :
            (<<"TIMEOUT", k>> \in printed \/ <<"FAILED", k>> \in printed) =>
                /\ k \in DOMAIN results
                /\ ~results[k]
                /\ pc = "done"
                /\ <<"Pipeline halted", k>> \in printed
                /\ <<"FAIL", k>> \in printed
                /\ \A j \in StepNumbers :
                       j > k => /\ j \notin Range(started)
                                /\ j \notin DOMAIN results
                                /\ <<"SKIP", j>> \in printed

C1_Witness ==
    /\ args_step = 0
    /\ started = <<1, 2>>
    /\ <<"FAILED", 2>> \in printed
    /\ <<"SKIP", 3>> \in printed

\* C2: with the store missing nothing is done: no directory is created, no
\* file is written, no step is started; the runner ends with exit code 1 and
\* the DATABASE NOT FOUND message, and a generator run on its own ends with
\* exit code 1 and the FileNotFoundError of load_data.
C2_MissingStoreAborts ==
    /\ [](~db_exists =>
            /\ started = <<>>
            /\ files = {}
            /\ child = 0
            /\ (pc = "done" => /\ exit_code = 1
                               /\ <<"DATABASE NOT FOUND", 0>> \in printed)
            /\ \A k \in StepNumbers :
                   gen_exit[k].rc # NoExit =>
                       /\ gen_exit[k].rc = 1
                       /\ gen_exit[k].err
                            = "FileNotFoundError: SQLite database not found")
    /\ [][~db_exists => dirs' = dirs /\ files' = files]_vars

C2_Witness ==
    /\ ~db_exists
    /\ dirs = {}
    /\ pc = "done"
    /\ exit_code = 1
    /\ \A k \in StepNumbers : gen_exit[k].rc = 1

\* C3: a step whose child exited 0 with expected outputs missing is a
\* success: it is recorded True and shown as PASS, the run is not halted at
\* it, the steps after it are still run, and when the runner exits non-zero
\* some step has really failed.
C3_MissingOutputIsWarning ==
    \A k \in StepNumbers :
        <<"MISSING OUTPUTS", k>> \in printed =>
            /\ k \in DOMAIN results
            /\ results[k]
            /\ <<"Pipeline halted", k>> \notin printed
            /\ pc = "done" =>
                   /\ <<"PASS", k>> \in printed
                   /\ (args_step = 0 /\ k + 1 \in StepNumbers)
                          => k + 1 \in DOMAIN results
                   /\ exit_code # 0 => \E j \in DOMAIN results : ~results[j]

C3_Witness ==
    /\ args_step = 0
    /\ pc = "done"
    /\ <<"MISSING OUTPUTS", 1>> \in printed
    /\ started = <<1, 2, 3>>
    /\ \A j \in StepNumbers : <<"PASS", j>> \in printed
    /\ exit_code = 0

\* C4: with --step 0 the steps are started in the order 1, 2, 3 (all three
\* when each succeeds); with --step k, k in 1..3, only step k is ever
\* selected or started, and it is started whenever it is run successfully.
C4_StepArgumentSelects ==
    /\ (args_step = 0 /\ pc # "idle") =>
           /\ \A i \in DOMAIN started : started[i] = i
           /\ (pc \in {"loop", "child"} => steps_to_run = <<1, 2, 3>>)
           /\ (pc = "done" /\ n_fail(results) = 0 /\ results # <<>>)
                  => started = <<1, 2, 3>>
    /\ (args_step \in StepNumbers) =>
           /\ Range(started) \subseteq {args_step}
           /\ Len(started) <= 1
           /\ DOMAIN results \subseteq {args_step}
           /\ (pc \in {"loop", "child"} => steps_to_run = <<args_step>>)
           /\ (pc = "done" /\ n_fail(results) = 0 /\ results # <<>>)
                  => started = <<args_step>>

C4_Witness ==
    /\ args_step = 2
    /\ pc = "done"
    /\ started = <<2>>
    /\ results = (2 :> TRUE)

\* C5: when the runner has run steps and exited, its exit code is non-zero
\* exactly when one of them failed (timeout, non-zero child exit, launch
\* error or missing script), in full-run and in single-step mode alike.
C5_ExitCodeTellsFailure ==
    (pc = "done" /\ results # <<>>) =>
        /\ exit_code \in {0, 1}
        /\ (exit_code = 0) = (\A k \in DOMAIN results : results[k])
        /\ (\E k \in StepNumbers, t \in FailureTags : <<t, k>> \in printed)
               => exit_code = 1

C5_Witness ==
    /\ pc = "done"
    /\ args_step = 3
    /\ <<"TIMEOUT", 3>> \in printed
    /\ exit_code = 1

-----------------------------------------------------------------------------
(* Properties of the tables *)

CountedTables == {1, 2, 3, 4, 6}

Generated(k) == TableKeys[k] \in DOMAIN tables

\* the label, count and percentage columns of a row of table k
LabelIn(k, row) ==
    CASE k = 1 -> row.Category
      [] k = 2 -> row.Method
      [] k = 3 -> row.Country_or_Region
      [] k = 4 -> row.Year_Range
      [] k = 6 -> row.Purpose

CountIn(k, row) == IF k = 6 THEN row.Data_Points_Count ELSE row.Count

PctIn(k, row) == IF k = 6 THEN row.Pct_of_Data_Points ELSE row.Percentage

NonTotalRows(k) ==
    SelectSeq(tables[TableKeys[k]], LAMBDA row : LabelIn(k, row) # "Total")

TotalRows(k) ==
    SelectSeq(tables[TableKeys[k]], LAMBDA row : LabelIn(k, row) = "Total")

InputRows(k) == IF k = 6 THEN Len(df_wv.ID) ELSE RowsOf(df_class)

Abs(x) == IF x < 0 THEN 0 - x ELSE x

\* C6: in each of Tables 1, 2, 3, 4 and 6 there is one Total row, its count
\* is the number of input rows, and the counts of the other rows add up to it.
C6_CountsSumToTotal ==
    \A k \in CountedTables :
        Generated(k) =>
            LET body == NonTotalRows(k)
            IN  /\ Len(TotalRows(k)) = 1
                /\ CountIn(k, TotalRows(k)[1]) = InputRows(k)
                /\ SumSeq([i \in DOMAIN body |-> CountIn(k, body[i])])
                     = CountIn(k, TotalRows(k)[1])

C6_Witness ==
    /\ t_pc = 6
    /\ RowsOf(df_class) = 5
    /\ Len(NonTotalRows(3)) = 3
    /\ \E i \in DOMAIN tables["table_3"] :
          tables["table_3"][i].Country_or_Region = OtherLabel(2)

\* the percentage of every non-total row is its share of the total rounded
\* to one decimal, the Total row has 100.0, and the non-total percentages
\* add up to 100.0 give or take 0.05 per row
PercentagesSumTo100(k) ==
    LET body == NonTotalRows(k)
        total == CountIn(k, TotalRows(k)[1])
    IN  /\ PctIn(k, TotalRows(k)[1]) = 1000
        /\ \A i \in DOMAIN body :
              2 * Abs(PctIn(k, body[i]) * total - 1000 * CountIn(k, body[i]))
                  <= total
        /\ 2 * Abs(SumSeq([i \in DOMAIN body |-> PctIn(k, body[i])]) - 1000)
              <= Len(body)

\* C7 as stated: in each of Tables 1, 2, 3, 4 and 6 the percentages of the
\* non-total rows sum to 100.0 within 0.05 per row.
C7_Original ==
    \A k \in CountedTables : Generated(k) => PercentagesSumTo100(k)

\* C7 amended: the same for every table generated from a non-empty input
\* table.
C7_PercentagesSumNonEmpty ==
    \A k \in CountedTables :
        (Generated(k) /\ InputRows(k) > 0) => PercentagesSumTo100(k)

C7_Witness ==
    /\ t_pc = 6
    /\ RowsOf(df_class) = 3
    /\ Len(NonTotalRows(1)) = 3
    /\ SumSeq([i \in 1..3 |-> NonTotalRows(1)[i].Percentage]) = 999

\* Table 3 and its input
Table3 == tables["table_3"]

RegionsPresent == SeqRange(df_class.Study_region_clean)

RegionCount(r) == CountOf(df_class.Study_region_clean, r)

Sentinels == {"Not specified", "Synthetic/Theoretical"}

\* the regions the claim says are merged: below 3 and not a sentinel
BelowThreshold == {r \in RegionsPresent \ Sentinels : RegionCount(r) < 3}

OtherLabels == {OtherLabel(n) : n \in 0..(MaxRows + 1)}

OtherRowsAt == {i \in DOMAIN Table3 : Table3[i].Country_or_Region \in OtherLabels}

RowsOfRegion(r) == {i \in DOMAIN Table3 : Table3[i].Country_or_Region = r}

SumOver(S) ==
    LET u == Uniques(df_class.Study_region_clean)
    IN  SumSeq([i \in DOMAIN u |-> IF u[i] \in S THEN RegionCount(u[i]) ELSE 0])

\* C8: in Table 3 a non-sentinel region with fewer than 3 papers has no row
\* of its own; such regions are all counted in one Other row, labelled with
\* their number, whose count is the sum of their counts; a region with 3 or
\* more papers has its own row with its count; there is no Other row when no
\* region is merged.
C8_LongTailBucketing ==
    Generated(3) =>
        /\ \A r \in BelowThreshold : RowsOfRegion(r) = {}
        /\ \A r \in RegionsPresent \ Sentinels :
              RegionCount(r) >= 3 =>
                  \E i \in DOMAIN Table3 :
                      /\ RowsOfRegion(r) = {i}
                      /\ Table3[i].Count = RegionCount(r)
        /\ IF BelowThreshold = {}
           THEN OtherRowsAt = {}
           ELSE \E i \in DOMAIN Table3 :
                   /\ OtherRowsAt = {i}
                   /\ Table3[i].Country_or_Region
                        = OtherLabel(Cardinality(BelowThreshold))
                   /\ Table3[i].Count = SumOver(BelowThreshold)

C8_Witness ==
    /\ Generated(3)
    /\ Cardinality(BelowThreshold) = 2
    /\ \E r \in RegionsPresent \ Sentinels : RegionCount(r) = 3
    /\ \E i \in OtherRowsAt : Table3[i].Count = 2

\* C9: in Table 3 every sentinel that occurs in the data has exactly one row
\* of its own, with its exact count, whatever the count, and the Other row
\* counts no sentinel paper.
C9_SentinelsAlwaysShown ==
    Generated(3) =>
        /\ \A r \in RegionsPresent \cap Sentinels :
              \E i \in DOMAIN Table3 :
                  /\ RowsOfRegion(r) = {i}
                  /\ Table3[i].Count = RegionCount(r)
        /\ \A i \in OtherRowsAt :
              Table3[i].Count = SumOver(RegionsPresent \ Sentinels)
                                - SumOver({r \in RegionsPresent \ Sentinels :
                                             RowsOfRegion(r) # {}})

C9_Witness ==
    /\ Generated(3)
    /\ RegionCount("Not specified") = 1
    /\ RegionCount("Synthetic/Theoretical") = 2
    /\ OtherRowsAt # {}
    /\ RowsOfRegion("Not specified") # {}
    /\ RowsOfRegion("Synthetic/Theoretical") # {}

IndividualRowsAt ==
    {i \in DOMAIN Table3 :
        Table3[i].Country_or_Region \notin OtherLabels \cup {"Total"}}

TotalIsLast ==
    /\ Table3 # <<>>
    /\ Table3[Len(Table3)].Country_or_Region = "Total"
    /\ \A i \in DOMAIN Table3 :
          Table3[i].Country_or_Region = "Total" => i = Len(Table3)

\* C10 as stated: the individually listed rows of Table 3 are in descending
\* count order, the Other row comes after every individually listed row, and
\* the Total row is the final row.
C10_Original ==
    Generated(3) =>
        /\ \A i, j \in IndividualRowsAt :
              i < j => Table3[i].Count >= Table3[j].Count
        /\ \A o \in OtherRowsAt : \A i \in IndividualRowsAt : i < o
        /\ TotalIsLast

\* C10 amended: all rows of Table 3 but the Total row, the Other row among
\* them, are in descending count order; the Other row comes after the
\* individually listed rows whose count is at least its own and before those
\* with a smaller count; the Total row is the final row.
C10_OtherSortedByCount ==
    Generated(3) =>
        /\ \A i, j \in IndividualRowsAt \cup OtherRowsAt :
              i < j => Table3[i].Count >= Table3[j].Count
        /\ \A o \in OtherRowsAt : \A i \in IndividualRowsAt :
              (i < o) = (Table3[i].Count >= Table3[o].Count)
        /\ TotalIsLast

C10_Witness ==
    /\ Generated(3)
    /\ \E o \in OtherRowsAt : \E i, j \in IndividualRowsAt :
          /\ i < o
          /\ o < j
          /\ Table3[i].Count = Table3[o].Count
          /\ Table3[j].Count < Table3[o].Count

-----------------------------------------------------------------------------
(* Properties of Chart 1 *)

\* the rolling means of Chart 1 have been computed
Chart1Computed == c_pc >= 1

\* the sum of q over the positions in S
RECURSIVE SumAt(_, _)
SumAt(q, S) ==
    IF S = {} THEN 0
    ELSE LET j == CHOOSE x \in S : TRUE
         IN  q[j] + SumAt(q, S \ {j})

\* C11: the 3-year and the 5-year rolling average series of Chart 1 have the
\* same length and the same year index as the annual totals: one value, or
\* one missing value, for every year from start_year to year_max.
C11_RollingKeepsIndex ==
    Chart1Computed =>
        /\ DOMAIN chart1.annual_totals = DOMAIN chart1.all_years
        /\ DOMAIN chart1.ma_3yr = DOMAIN chart1.annual_totals
        /\ DOMAIN chart1.ma_5yr = DOMAIN chart1.annual_totals
        /\ chart1.all_years =
             [i \in 1..(chart1.year_max - chart1.start_year + 1) |->
                chart1.start_year + i - 1]

C11_Witness ==
    /\ c_pc = 2
    /\ Len(chart1.annual_totals) >= 4
    /\ \E i \in DOMAIN chart1.annual_totals : chart1.annual_totals[i] = 0
    /\ DOMAIN chart1.ma_5yr = DOMAIN chart1.annual_totals

\* the positions of q that the centered window of position i covers
InRange(q, i, half) == {j \in DOMAIN q : i - half <= j /\ j <= i + half}

\* position i of the rolling mean ma of q is missing exactly when its window
\* holds fewer than min values of q, and is otherwise their mean
RollingValueAsClaimed(ma, q, i, half, min) ==
    LET S == InRange(q, i, half)
    IN  /\ (ma[i].n = 0) = (Cardinality(S) < min)
        /\ Cardinality(S) >= min =>
              /\ ma[i].n = Cardinality(S)
              /\ ma[i].sum = SumAt(q, S)

\* C12: a value of the 3-year (5-year) rolling average is missing exactly
\* when the part of its window inside the series holds fewer than 2 (3)
\* years; otherwise it is the mean of the annual totals of those years.  So
\* the first and the last year of a series of at least 2 (3) years have a
\* value.
C12_RollingMinPeriods ==
    Chart1Computed =>
        LET q == chart1.annual_totals
        IN  /\ \A i \in DOMAIN q :
                  /\ RollingValueAsClaimed(chart1.ma_3yr, q, i, 1, 2)
                  /\ RollingValueAsClaimed(chart1.ma_5yr, q, i, 2, 3)
            /\ Len(q) >= 2 =>
                  chart1.ma_3yr[1].n > 0 /\ chart1.ma_3yr[Len(q)].n > 0
            /\ Len(q) >= 3 =>
                  chart1.ma_5yr[1].n > 0 /\ chart1.ma_5yr[Len(q)].n > 0

C12_Witness ==
    /\ c_pc = 1
    /\ Len(chart1.annual_totals) = 2
    /\ chart1.ma_3yr[1] = [sum |-> 2, n |-> 2]
    /\ chart1.ma_5yr[1].n = 0

-----------------------------------------------------------------------------
(* Properties of the completeness calculation *)

\* calculate_completeness has returned
CompletenessCalculated == h_pc = 1

\* C13: the completeness of a column with no non-null value is 0 and the
\* completeness of a column whose values are all non-null is 100.
C13_CompletenessEndpoints ==
    CompletenessCalculated =>
        \A name \in DOMAIN completeness :
            \A c \in DOMAIN completeness[name] :
                LET col == dfs[name][c]
                IN  /\ (\A i \in DOMAIN col : col[i] = NaN) =>
                          completeness[name][c] = 0
                    /\ (\A i \in DOMAIN col : col[i] # NaN) =>
                          completeness[name][c] = 100

C13_Witness ==
    /\ CompletenessCalculated
    /\ dfs["02_Classification"]["Classification"] = <<NaN, NaN, NaN>>
    /\ completeness["02_Classification"]["Classification"] = 0
    /\ completeness["01_Screening"]["Abstract"] = 100
    /\ "Decade" \notin DOMAIN completeness["02_Classification"]

-----------------------------------------------------------------------------
(* Properties of the generators as a whole *)

\* the category, count and percentage columns of Table 1
Table1Columns ==
    [i \in DOMAIN tables.table_1 |->
        << tables.table_1[i].Category, tables.table_1[i].Count,
           tables.table_1[i].Percentage >>]

\* a classification table of three papers: two of category A, one of B
ThreePapersAAB ==
    df_class.Classification \in
        { <<"A", "A", "B">>, <<"A", "B", "A">>, <<"B", "A", "A">> }

\* C14: for three papers of categories A, A and B, Table 1 is exactly the
\* rows A with count 2 and 66.7%, B with count 1 and 33.3%, Total with count
\* 3 and 100.0%, in that order.
C14_TableOneOfAAB ==
    (Generated(1) /\ ThreePapersAAB) =>
        Table1Columns =
            << <<"A", 2, 667>>, <<"B", 1, 333>>, <<"Total", 3, 1000>> >>

C14_Witness ==
    /\ t_pc = 6
    /\ df_class.Classification = <<"B", "A", "A">>
    /\ Len(tables.table_1) = 3
    /\ tables.table_1[1].Category = "A"
    /\ tables.table_1[1].Percentage = 667

\* the relational store: the database file and the rows of its tables
Store == <<db_exists, df_class, df_wv, dfs>>

\* C16: no step of a generator or of the runner, whatever the step argument
\* and whether it succeeds or fails, changes the store: the database file is
\* neither created nor removed and the rows of the screening, classification
\* and water_values tables stay as they are.
C16_StoreOnlyRead == [][Store' = Store]_vars

C16_Witness ==
    /\ db_exists
    /\ gen_exit[1].rc = 1
    /\ gen_exit[2].rc = 0
    /\ pc = "done"
    /\ exit_code = 1
    /\ files # {}

-----------------------------------------------------------------------------
(* Properties of the generators run on their own *)

\* the files that generator k writes
GeneratorFiles(k) ==
    {<<GeneratorOps(k)[i].dir, GeneratorOps(k)[i].name>> :
        i \in {j \in DOMAIN GeneratorOps(k) : GeneratorOps(k)[j].op = "write"}}

\* this step is a run of generator k on its own
StandaloneRunOf(k) == gen_exit[k].rc = NoExit /\ gen_exit'[k].rc # NoExit

\* C17: a generator run on its own with the store present, from a state with
\* no output directory or after other generators have run, exits with code 0
\* and has written all of its output files.
C17_Original ==
    [][\A k \in StepNumbers :
          ( /\ StandaloneRunOf(k)
            /\ db_exists
            /\ \/ dirs = {} /\ files = {}
               \/ \E j \in StepNumbers \ {k} : gen_exit[j].rc # NoExit )
          => /\ gen_exit'[k].rc = 0
             /\ GeneratorFiles(k) \subseteq files']_vars

\* C18: every file that a generator has written is in one directory
C18_Original ==
    \A f, g \in files : f[1] = g[1]

-----------------------------------------------------------------------------
(* Properties of the runner's scheduling *)

\* the started child processes that run_step has not yet given a result
RunningChildren == {i \in DOMAIN started : started[i] \notin DOMAIN results}

\* C19: at most one child process is running, it is the one started last,
\* and every child started before it has ended and been given its result,
\* which run_step does after checking the outputs.
C19_OneChildAtATime ==
    /\ Cardinality(RunningChildren) <= 1
    /\ \A i \in RunningChildren :
          /\ i = Len(started)
          /\ pc = "child"
          /\ child = started[i]
    /\ pc = "child" => RunningChildren # {}

C19_Witness ==
    /\ pc = "child"
    /\ started = <<1, 2, 3>>
    /\ child = 3
    /\ DOMAIN results = {1, 2}
    /\ <<"MISSING OUTPUTS", 1>> \in printed

\* C20: within one run of the runner no step's child process is started
\* more than once, whether it succeeds, fails or times out.
C20_NoRetries ==
    \A k \in StepNumbers :
        Cardinality({i \in DOMAIN started : started[i] = k}) <= 1

C20_Witness ==
    /\ pc = "done"
    /\ args_step = 0
    /\ started = <<1, 2>>
    /\ <<"TIMEOUT", 2>> \in printed
    /\ results[2] = FALSE

-----------------------------------------------------------------------------
(* Properties of Chart 2 *)

\* Chart 2 has been drawn
Chart2Drawn == c_pc = 3

\* the regions, other than the sentinels, of the classification table
RegularRegions == RegionsPresent \ special_categories

\* the bars of Chart 2 whose label is a region of the data
BarsOfRegion(region) ==
    {i \in DOMAIN chart2.display_data : chart2.display_data[i].label = region}

\* the Other bars of Chart 2
OtherBarsAt ==
    {i \in DOMAIN chart2.display_data :
        chart2.display_data[i].label \notin RegionsPresent}

InChart2(region) == BarsOfRegion(region) # {}

InTable3(region) == RowsOfRegion(region) # {}

\* C21: a region has its own bar in Chart 2 exactly when it has its own row
\* in Table 3.
C21_Original ==
    (Chart2Drawn /\ Generated(3)) =>
        \A region \in RegionsPresent : InChart2(region) = InTable3(region)

\* the regions, other than the sentinels, that have a bar of their own
ShownInChart2 == {region \in RegularRegions : InChart2(region)}

\* the regions that Chart 2 does not show
MergedInChart2 == RegularRegions \ ShownInChart2

BarCounts == [i \in DOMAIN chart2.display_data |-> chart2.display_data[i].count]

\* C21 amended: Chart 2 does not apply the count threshold of Table 3.  It
\* shows the 15 regions of highest count, or all when there are at most 15,
\* whatever their counts, and merges every further region, whatever its
\* count, into one Other bar that carries their number and the sum of
\* their counts; with at most 15 regions there is no Other bar.  Table 3
\* shows a region exactly when it has 3 or more papers.  Both show each
\* sentinel that occurs in the data.  So a region of fewer than 3 papers
\* that is shown in Chart 2 has a bar and no row, and a region of 3 or more
\* papers that is merged in Chart 2 has a row and no bar.
C21_RankNotThreshold ==
    (Chart2Drawn /\ Generated(3)) =>
        /\ \A s \in special_categories \cap RegionsPresent :
              InChart2(s) /\ InTable3(s)
        /\ \A region \in RegularRegions :
              InTable3(region) = (RegionCount(region) >= 3)
        /\ Cardinality(ShownInChart2)
              = (IF Cardinality(RegularRegions) < 15
                 THEN Cardinality(RegularRegions) ELSE 15)
        /\ \A a \in ShownInChart2 : \A b \in MergedInChart2 :
              RegionCount(a) >= RegionCount(b)
        /\ Cardinality(OtherBarsAt) = (IF MergedInChart2 = {} THEN 0 ELSE 1)
        /\ \A i \in OtherBarsAt :
              /\ chart2.display_data[i].label =
                    "Other (" \o ToString(Cardinality(MergedInChart2))
                    \o " regions)"
              /\ BarCounts[i] = SumOver(MergedInChart2)
        /\ Cardinality(RegularRegions) <= 15 =>
              /\ OtherBarsAt = {}
              /\ \A region \in RegularRegions : InChart2(region)
        /\ \A region \in ShownInChart2 :
              RegionCount(region) < 3 => ~InTable3(region)
        /\ \A region \in MergedInChart2 :
              RegionCount(region) >= 3 => InTable3(region)

C21_Witness ==
    /\ Chart2Drawn
    /\ Generated(3)
    /\ Cardinality(RegularRegions) > 15
    /\ \E region \in RegularRegions :
          /\ RegionCount(region) >= 3
          /\ InTable3(region)
          /\ ~InChart2(region)
    /\ OtherBarsAt # {}

\* C25: Chart 2 shows the 15 regions of highest count, or all when there
\* are fewer, each as one bar with its count; the other regions are merged
\* into one Other bar, labelled with their number and holding the sum of
\* their counts, and there is no Other bar when none is merged; each
\* sentinel in the data is one bar with its count; the counts of the bars
\* add up to the number of papers.
C25_TopFifteenAndOther ==
    Chart2Drawn =>
        /\ Cardinality(ShownInChart2)
              = (IF Cardinality(RegularRegions) < 15
                 THEN Cardinality(RegularRegions) ELSE 15)
        /\ \A a \in ShownInChart2 : \A b \in MergedInChart2 :
              RegionCount(a) >= RegionCount(b)
        /\ \A region \in ShownInChart2 \cup (Sentinels \cap RegionsPresent) :
              /\ Cardinality(BarsOfRegion(region)) = 1
              /\ \A i \in BarsOfRegion(region) :
                    BarCounts[i] = RegionCount(region)
        /\ Cardinality(OtherBarsAt) = (IF MergedInChart2 = {} THEN 0 ELSE 1)
        /\ \A i \in OtherBarsAt :
              /\ chart2.display_data[i].label =
                    "Other (" \o ToString(Cardinality(MergedInChart2))
                    \o " regions)"
              /\ BarCounts[i] = SumOver(MergedInChart2)
        /\ SumSeq(BarCounts) = RowsOf(df_class)
        /\ chart2.n_total = RowsOf(df_class)

C25_Witness ==
    /\ Chart2Drawn
    /\ Cardinality(ShownInChart2) = 15
    /\ Cardinality(MergedInChart2) = 2
    /\ Sentinels \subseteq RegionsPresent
    /\ \E i \in OtherBarsAt : BarCounts[i] = 7
    /\ RegionCount("R15") = RegionCount("R16")
    /\ "R16" \in ShownInChart2
    /\ "R15" \in MergedInChart2

-----------------------------------------------------------------------------
(* Properties of Tables 4 and 6 *)

Table4 == tables["table_4"]

\* the six year ranges in chronological order
SixYearRanges ==
    << "Pre-2000", "2000-2004", "2005-2009",
       "2010-2014", "2015-2019", "2020-2025" >>

\* C22: Table 4 is the six year ranges in chronological order, each with the
\* number of papers of that range, 0 when there is none, and then the Total
\* row with the number of papers; each paper is in one of the six ranges, so
\* the six counts add up to the Total.
C22_SixYearRanges ==
    Generated(4) =>
        /\ Len(Table4) = 7
        /\ \A i \in 1..6 :
              /\ Table4[i].Year_Range = SixYearRanges[i]
              /\ Table4[i].Count =
                    Cardinality({j \in DOMAIN df_class.Decade :
                                    df_class.Decade[j] = SixYearRanges[i]})
        /\ Table4[7].Year_Range = "Total"
        /\ Table4[7].Count = RowsOf(df_class)
        /\ \A j \in DOMAIN df_class.Decade :
              \E i \in 1..6 : /\ Table4[i].Year_Range = df_class.Decade[j]
                              /\ Table4[i].Count >= 1

C22_Witness ==
    /\ Generated(4)
    /\ Table4[1].Count = 2
    /\ Table4[2].Count = 0
    /\ Table4[4].Count = 1
    /\ Table4[6].Count = 2
    /\ Table4[7].Count = 5

-----------------------------------------------------------------------------
(* Properties of Chart 1's display range *)

\* Chart 1 has been drawn and its caption written
Chart1Drawn == c_pc >= 2

\* the sum of all cells of the plotted year-by-method table
PlottedPapers ==
    SumSeq([i \in DOMAIN chart1.year_method |->
                SumSeq(chart1.year_method[i])])

\* C23: the cells of the plotted year-by-method table of Chart 1 add up to
\* the number of classification rows, which is the number of papers the
\* caption gives for the displayed years.
C23_Original ==
    Chart1Drawn =>
        /\ PlottedPapers = RowsOf(df_class)
        /\ chart1.caption.n_papers = PlottedPapers

\* the papers published in year y
PapersOf(y) == Cardinality({i \in DOMAIN df_class.Year_numeric :
                               df_class.Year_numeric[i] = y})

EarliestYear == SetMin(SeqRange(df_class.Year_numeric))

LatestYear == SetMax(SeqRange(df_class.Year_numeric))

\* the years, from the earliest to the latest, whose 3-year window holds
\* at least 2 papers
DenseYears ==
    {y \in EarliestYear..LatestYear :
        PapersOf(y) + PapersOf(y + 1) + PapersOf(y + 2) >= 2}

\* C24: the first year of Chart 1 is the smallest year, from the earliest
\* to the latest publication year, whose window y, y+1, y+2 holds at least
\* 2 papers, and the earliest year when there is none; the years shown are
\* all the years from it to the latest, each with its number of papers, 0
\* for a year without papers.
C24_StartYearRule ==
    Chart1Computed =>
        /\ chart1.start_year =
              (IF DenseYears = {} THEN EarliestYear ELSE SetMin(DenseYears))
        /\ DOMAIN chart1.all_years = 1..(LatestYear - chart1.start_year + 1)
        /\ \A i \in DOMAIN chart1.all_years :
              /\ chart1.all_years[i] = chart1.start_year + i - 1
              /\ chart1.annual_totals[i] = PapersOf(chart1.all_years[i])

C24_Witness ==
    /\ Chart1Drawn
    /\ EarliestYear < chart1.start_year
    /\ \E i \in DOMAIN chart1.annual_totals : chart1.annual_totals[i] = 0
    /\ Len(chart1.all_years) = 4

-----------------------------------------------------------------------------
(* Properties of the completeness classes *)

\* the summary of the completeness has been printed
SummaryPrinted == h_pc = 2

FullyPopulated(col) == \A i \in DOMAIN col : col[i] # NaN

AllNull(col) == \A i \in DOMAIN col : col[i] = NaN

\* C26: a column reported at 100 has no null value and a column reported at
\* 0 has no non-null value, so the summary's numbers of complete and of
\* empty columns are the numbers of fully populated and of all-null columns.
C26_Original ==
    SummaryPrinted =>
        \A name \in DOMAIN completeness :
            LET pct == completeness[name]
            IN  /\ \A c \in DOMAIN pct :
                      /\ pct[c] = 100 => FullyPopulated(dfs[name][c])
                      /\ pct[c] = 0 => AllNull(dfs[name][c])
                /\ summary[name].n_complete =
                      Cardinality({c \in DOMAIN pct :
                                      FullyPopulated(dfs[name][c])})
                /\ summary[name].n_empty =
                      Cardinality({c \in DOMAIN pct : AllNull(dfs[name][c])})

-----------------------------------------------------------------------------
(* Properties of the expected outputs *)

\* the runner has recorded step k as successful
StepSucceeded(k) == k \in DOMAIN results /\ results[k]

\* C27: after a successful run of a step all the outputs the runner expects
\* of it exist and no missing-output warning has been printed for it.
C27_Original ==
    \A k \in StepNumbers :
        StepSucceeded(k) =>
            /\ STEPS[k].outputs \subseteq files
            /\ <<"MISSING OUTPUTS", k>> \notin printed

-----------------------------------------------------------------------------
(* Properties of the step argument *)

\* the prerequisites were met when the runner started
StoreFound == <<"DATABASE NOT FOUND", 0>> \notin printed

\* C28: a run of the runner with a step argument outside 0..3 (and the store
\* present) reports an invalid step number, starts no step and ends with a
\* non-zero exit code.
C28_Original ==
    (pc # "idle" /\ args_step \notin 0..Len(STEPS) /\ StoreFound) =>
        /\ <<"Invalid step number", args_step>> \in printed
        /\ started = <<>>
        /\ pc = "done"
        /\ exit_code # 0

-----------------------------------------------------------------------------
(* Properties of the runner's summary *)

StatusTags == {"PASS", "FAIL", "SKIP"}

\* the runner has printed its summary
SummaryReached == pc = "done" /\ results # <<>>

\* the steps whose summary line carries the tag
StepsTagged(tag) == {n \in StepNumbers : <<tag, n>> \in printed}

Banner == <<"ALL STEPS COMPLETED SUCCESSFULLY", 0>>

\* every step was run and returned success
AllStepsSucceeded ==
    /\ SeqRange(started) = StepNumbers
    /\ \A n \in StepNumbers : n \in DOMAIN results /\ results[n]

\* C29: in the summary every step has exactly one of PASS, FAIL and SKIP and
\* the three printed numbers are the sizes of the three classes, so they add
\* up to 3; the banner is printed exactly when all three steps were run and
\* succeeded; after a successful single-step run the other two steps are
\* SKIP, there is no banner and the exit code is 0.
C29_SummaryPartition ==
    SummaryReached =>
        /\ \A n \in StepNumbers :
              Cardinality({t \in StatusTags : <<t, n>> \in printed}) = 1
        /\ \A a \in 0..Len(STEPS) :
              /\ <<"Passed:", a>> \in printed
                    <=> a = Cardinality(StepsTagged("PASS"))
              /\ <<"Failed:", a>> \in printed
                    <=> a = Cardinality(StepsTagged("FAIL"))
              /\ <<"Skipped:", a>> \in printed
                    <=> a = Cardinality(StepsTagged("SKIP"))
        /\ Cardinality(StepsTagged("PASS")) + Cardinality(StepsTagged("FAIL"))
              + Cardinality(StepsTagged("SKIP")) = Len(STEPS)
        /\ Banner \in printed <=> AllStepsSucceeded
        /\ (args_step \in StepNumbers /\ results[args_step]) =>
              /\ StepsTagged("SKIP") = StepNumbers \ {args_step}
              /\ StepsTagged("PASS") = {args_step}
              /\ Banner \notin printed
              /\ exit_code = 0

C29_Witness ==
    /\ SummaryReached
    /\ args_step = 2
    /\ results[2]
    /\ StepsTagged("SKIP") = {1, 3}
    /\ <<"Skipped:", 2>> \in printed
    /\ Banner \notin printed
    /\ exit_code = 0

-----------------------------------------------------------------------------
(* Properties of Table 6 *)

Table6 == tables["table_6"]

PurposeRows == {i \in DOMAIN Table6 : Table6[i].Purpose # "Total"}

\* the purposes under which paper p has an observation
PurposesOf(p) ==
    {df_wv.Purpose_clean[i] : i \in {j \in DOMAIN df_wv.ID : df_wv.ID[j] = p}}

DistinctPapers == SeqRange(df_wv.ID) \ {NaN}

SumOfPurposePapers ==
    SumSeq([i \in DOMAIN Table6 |->
               IF i \in PurposeRows THEN Table6[i].Papers_Count ELSE 0])

\* C30: in Table 6 the purpose rows are in descending order of
\* Data_Points_Count and the Total row is last; its Papers_Count is the
\* number of distinct papers, which is at most the sum of the Papers_Count of
\* the purpose rows and equal to it only when no paper has observations
\* under two purposes.
C30_PurposeOrderAndPapers ==
    Generated(6) =>
        /\ Table6 # <<>>
        /\ PurposeRows = 1..(Len(Table6) - 1)
        /\ \A i, j \in PurposeRows :
              i < j => Table6[i].Data_Points_Count >= Table6[j].Data_Points_Count
        /\ Table6[Len(Table6)].Papers_Count = Cardinality(DistinctPapers)
        /\ Table6[Len(Table6)].Papers_Count <= SumOfPurposePapers
        /\ Table6[Len(Table6)].Papers_Count = SumOfPurposePapers
              => \A p \in DistinctPapers : Cardinality(PurposesOf(p)) <= 1

C30_Witness ==
    /\ Generated(6)
    /\ Len(Table6) = 3
    /\ Table6[1].Data_Points_Count > Table6[2].Data_Points_Count
    /\ Table6[1].Purpose = "Hydropower"
    /\ Table6[3].Papers_Count = 2
    /\ SumOfPurposePapers = 3
    /\ \E p \in DistinctPapers : Cardinality(PurposesOf(p)) = 2

=============================================================================
